---- MODULE Spec2Model ----
(***************************************************************************)
(* Scene construction, BVH build and nearest-hit queries of trtrt.         *)
(*                                                                         *)
(* Numbers.  Lengths and ray parameters are whole multiples of TMIN        *)
(* (1e-3 in utils/const.py), so TMIN is 1.  Ray directions have components *)
(* in {-1, 0, 1}; quotients are rounded to the nearest unit.  TMAX is the   *)
(* source's 1e8 and lies beyond every time a bounded scene produces.       *)
(* The IEEE values the slab test can produce on a zero direction component *)
(* (+inf, -inf, NaN) are the tokens PInf, NInf and NaN.                    *)
(***************************************************************************)
EXTENDS Integers, Sequences, FiniteSets, TLC

\* ---------------------------------------------------------------- bounds
MaxObjs == 3          \* primitives added to one Scene
MaxMakes == 2         \* calls of Scene.make() on one Scene
maximum == 2          \* Scene(maximum=...): length of the fixed-size arrays
RecursionLimit == 3   \* depth at which the interpreter stops a recursion
MaxDepth == 3         \* PathTracer(max_depth=...)
RandomCells == 4      \* equal cells of [0, 1) a value of ti.random() is drawn from
NumPixels == 2        \* pixels of the image, one parallel worker each
MaxSpp == 2           \* Renderer(samples_per_pixel=...)
MaxPoses == 2         \* positions the camera is moved through
MaxChanges == 3       \* changes of the camera and of the parameters in one run
MaxFrames == 3        \* frames accumulated without a clear before the window closes
MaxQueries == 2       \* calls of BVH.intersect on one field-backed BVH
MaxRes == 5           \* largest u_res and v_res handed to ParametricMesh.generate

\* ------------------------------------------------------------- constants
TMIN == 1
TMAX == 100000000
PBR == 0
GLASS == 1
PInf == 2000000000
NInf == -2000000000
NaN == 2100000000

Axes == {0, 1, 2}

\* ---------------------------------------------------------------- vectors
vec3(x, y, z) == <<x, y, z>>

Min2(a, b) == IF a <= b THEN a ELSE b

Max2(a, b) == IF a >= b THEN a ELSE b

Min3(a, b, c) == Min2(a, Min2(b, c))

Max3(a, b, c) == Max2(a, Max2(b, c))

VMin(a, b) == <<Min2(a[1], b[1]), Min2(a[2], b[2]), Min2(a[3], b[3])>>

VMax(a, b) == <<Max2(a[1], b[1]), Max2(a[2], b[2]), Max2(a[3], b[3])>>

Sub(a, b) == <<a[1] - b[1], a[2] - b[2], a[3] - b[3]>>

Dot(a, b) == a[1] * b[1] + a[2] * b[2] + a[3] * b[3]

Cross(a, b) ==
    <<a[2] * b[3] - a[3] * b[2], a[3] * b[1] - a[1] * b[3], a[1] * b[2] - a[2] * b[1]>>

\* ------------------------------------------------------------------ AABB
AABB(lo, hi) == [min |-> lo, max |-> hi]

\* a freshly constructed struct, and every cell of a fresh field, is all zero
ZeroAABB == AABB(vec3(0, 0, 0), vec3(0, 0, 0))

\* a union that takes the minimum on both corners
AABB_union_min(self, other) == AABB(VMin(self.min, other.min), VMin(self.max, other.max))

AABB_union(self, other) == AABB(VMin(self.min, other.min), VMax(self.max, other.max))

\* ------------------------------------------------------------ primitives
\* emissive stands for pbr.emission.norm() > 0; uid is the identity of the
\* Python object (0: no object, the content of an unwritten field cell).
Triangle(tag, v0, v1, v2, emissive) ==
    [kind |-> "Triangle", tag |-> tag, v0 |-> v0, v1 |-> v1, v2 |-> v2,
     center |-> vec3(0, 0, 0), radius |-> 0, bbox |-> ZeroAABB,
     emissive |-> emissive, uid |-> 0]

Sphere(tag, center, radius, emissive) ==
    [kind |-> "Sphere", tag |-> tag, v0 |-> vec3(0, 0, 0), v1 |-> vec3(0, 0, 0),
     v2 |-> vec3(0, 0, 0), center |-> center, radius |-> radius, bbox |-> ZeroAABB,
     emissive |-> emissive, uid |-> 0]

ZeroTriangle == Triangle(0, vec3(0, 0, 0), vec3(0, 0, 0), vec3(0, 0, 0), FALSE)

ZeroSphere == Sphere(0, vec3(0, 0, 0), 0, FALSE)

init_triangle(t) ==
    [t EXCEPT !.bbox = AABB(
        vec3(Min3(t.v0[1], t.v1[1], t.v2[1]) - TMIN,
             Min3(t.v0[2], t.v1[2], t.v2[2]) - TMIN,
             Min3(t.v0[3], t.v1[3], t.v2[3]) - TMIN),
        vec3(Max3(t.v0[1], t.v1[1], t.v2[1]) + TMIN,
             Max3(t.v0[2], t.v1[2], t.v2[2]) + TMIN,
             Max3(t.v0[3], t.v1[3], t.v2[3]) + TMIN))]

init_sphere(s) ==
    [s EXCEPT !.bbox = AABB(
        vec3(s.center[1] - s.radius, s.center[2] - s.radius, s.center[3] - s.radius),
        vec3(s.center[1] + s.radius, s.center[2] + s.radius, s.center[3] + s.radius))]

init4bbox(obj) == IF obj.kind = "Triangle" THEN init_triangle(obj) ELSE init_sphere(obj)

\* Abstraction.map_shape; "ValueError": the call raises
map_shape(obj) ==
    IF obj.kind = "Sphere" THEN "SPHERE"
    ELSE IF obj.kind = "Triangle" THEN "TRIANGLE" ELSE "ValueError"

Abstraction(obj) == [entity |-> obj, tag |-> obj.tag, shape |-> map_shape(obj)]

\* --------------------------------------------------------------- sorting
sort_key(obj, axis) ==
    IF obj.shape = "TRIANGLE" THEN obj.entity.bbox.min[axis + 1]
    ELSE obj.entity.bbox.min[axis + 1] + 2 * TMAX

\* sorted() is stable: x goes behind every element whose key is not larger
RECURSIVE InsertByKey(_, _, _)
InsertByKey(s, x, axis) ==
    IF s = <<>> THEN <<x>>
    ELSE IF sort_key(s[Len(s)], axis) <= sort_key(x, axis) THEN Append(s, x)
    ELSE Append(InsertByKey(SubSeq(s, 1, Len(s) - 1), x, axis), s[Len(s)])

RECURSIVE sort_objects(_, _)
sort_objects(objs, axis) ==
    IF objs = <<>> THEN <<>>
    ELSE InsertByKey(sort_objects(SubSeq(objs, 1, Len(objs) - 1), axis), objs[Len(objs)], axis)

\* ------------------------------------------------------------------- BVH
BVHNode(aabb, left_id, right_id, obj_id) ==
    [aabb |-> aabb, left_id |-> left_id, right_id |-> right_id, obj_id |-> obj_id]

ZeroNode == BVHNode(ZeroAABB, 0, 0, 0)

\* BVH.set_objects: the list is shared with the Scene, the node field is new
set_objects(objs) ==
    [objects |-> objs,
     nodes |-> [i \in 0 .. (Len(objs) * 2 + 1) - 1 |-> ZeroNode],
     used_nodes |-> 0,
     root_id |-> -1,
     rnd |-> <<>>,
     ret |-> -1]

\* objects[start:end] = sort_objects(objects[start:end], axis), 0-based slice
SortSlice(objs, start, end, axis) ==
    SubSeq(objs, 1, start) \o sort_objects(SubSeq(objs, start + 1, end), axis)
        \o SubSeq(objs, end + 1, Len(objs))

\* a range of up to two primitives taken for a leaf
leaf_range_wide(start, end) == end - start <= 2

\* if end - start == 1: the range holds one primitive
leaf_range(start, end) == end - start = 1

\* a leaf that stores the id of its node as obj_id
leaf_node_by_node_id(objs, start, used) ==
    BVHNode(objs[start + 1].entity.bbox, -1, -1, used)

\* the leaf BVHNode of _build ("Use start index, not used_nodes")
leaf_node(objs, start, used) == BVHNode(objs[start + 1].entity.bbox, -1, -1, start)

\* an internal node whose right_id was never assigned
internal_node_no_right(aabb, left_id, right_id) == BVHNode(aabb, left_id, -1, -1)

\* the internal BVHNode of _build once aabb, left_id and right_id are assigned
internal_node(aabb, left_id, right_id) == BVHNode(aabb, left_id, right_id, -1)

\* a split that leaves one primitive on the right
mid_last(start, end) == end - 1

\* mid = start + (end - start) // 2
mid(start, end) == start + (end - start) \div 2

\* BVH._build on the range [start, end); rnd holds the values randint(0, 2)
\* returns, in the order of the calls; ret is the returned node id
RECURSIVE BVH_build(_, _, _)
BVH_build(b, start, end) ==
    LET used == b.used_nodes
        b1 == [b EXCEPT !.used_nodes = used + 1]
    IN  IF leaf_range(start, end)
        THEN [b1 EXCEPT !.nodes[used] = leaf_node(b.objects, start, used),
                        !.ret = used]
        ELSE LET axis == Head(b1.rnd)
                 b2 == [b1 EXCEPT !.objects = SortSlice(b1.objects, start, end, axis),
                                  !.rnd = Tail(b1.rnd),
                                  !.nodes[used] = BVHNode(ZeroAABB, -1, -1, -1)]
                 l == BVH_build(b2, start, mid(start, end))
                 r == BVH_build(l, mid(start, end), end)
             IN  [r EXCEPT !.nodes[used] =
                               internal_node(AABB_union(r.nodes[l.ret].aabb,
                                                        r.nodes[r.ret].aabb), l.ret, r.ret),
                           !.ret = used]

\* BVH.build
build(b, rnd) ==
    LET r == BVH_build([b EXCEPT !.rnd = rnd], 0, Len(b.objects))
    IN  [r EXCEPT !.root_id = r.ret]

\* ------------------------------------------------------------ arithmetic
\* n / d rounded to the nearest whole unit (d # 0)
Quot(n, d) == IF d > 0 THEN (2 * n + d) \div (2 * d) ELSE (-2 * n - d) \div (-2 * d)

\* n / (d + EPSILON) rounded to the nearest whole unit, for d >= 1: EPSILON
\* (1e-6) moves the quotient by less than half a unit, so it only decides
\* the quotients that lie halfway between two units
DivEps(n, d) == IF n > 0 THEN (2 * n + d - 1) \div (2 * d) ELSE (2 * n + d) \div (2 * d)

\* ti.sqrt, rounded down to a whole unit
Sqrt(n) == CHOOSE r \in 0 .. n : r * r <= n /\ (r + 1) * (r + 1) > n

\* IEEE comparisons: false as soon as one side is NaN
Lt(a, b) == a # NaN /\ b # NaN /\ a < b

Le(a, b) == a # NaN /\ b # NaN /\ a <= b

Ge(a, b) == a # NaN /\ b # NaN /\ a >= b

\* ti.max / ti.min: with a NaN operand the backend returns either the other
\* operand (nan = "num") or NaN (nan = "nan")
FMax(a, b, nan) ==
    IF a = NaN \/ b = NaN
    THEN IF nan = "nan" THEN NaN ELSE IF a = NaN THEN b ELSE a
    ELSE Max2(a, b)

FMin(a, b, nan) ==
    IF a = NaN \/ b = NaN
    THEN IF nan = "nan" THEN NaN ELSE IF a = NaN THEN b ELSE a
    ELSE Min2(a, b)

\* 1.0 / d for d in {-1, 0, 1}
Inv(d) == IF d = 0 THEN PInf ELSE d

\* x * inv_d for a finite x
MulInv(x, inv_d) ==
    IF inv_d = PInf
    THEN IF x > 0 THEN PInf ELSE IF x < 0 THEN NInf ELSE NaN
    ELSE x * inv_d

\* --------------------------------------------------------------- records
Ray(origin, dir) == [origin |-> origin, dir |-> dir]

HitInfo(is_hit, time, front, tag, uid) ==
    [is_hit |-> is_hit, time |-> time, front |-> front, tag |-> tag, uid |-> uid]

\* HitInfo(time=tmax): every other field is zero
NoHit(tmax) == HitInfo(FALSE, tmax, FALSE, 0, 0)

BVHHitInfo(is_hit, tmin, tmax) == [is_hit |-> is_hit, tmin |-> tmin, tmax |-> tmax]

\* ---------------------------------------------------------- intersection
\* one pass of the loop over the axes of AABB.intersect
AABB_axis(self, ray, h, i, nan) ==
    LET inv_d == Inv(ray.dir[i])
        t0 == MulInv(self.min[i] - ray.origin[i], inv_d)
        t1 == MulInv(self.max[i] - ray.origin[i], inv_d)
        lo == IF Lt(t0, t1) THEN FMax(t0, h.tmin, nan) ELSE FMax(t1, h.tmin, nan)
        hi == IF Lt(t0, t1) THEN FMin(t1, h.tmax, nan) ELSE FMin(t0, h.tmax, nan)
    IN  BVHHitInfo(h.is_hit /\ Le(lo, hi), lo, hi)

AABB_intersect(self, ray, tmin, tmax, nan) ==
    AABB_axis(self, ray,
        AABB_axis(self, ray,
            AABB_axis(self, ray, BVHHitInfo(TRUE, tmin, tmax), 1, nan), 2, nan), 3, nan)

Triangle_intersect(self, ray, tmin, tmax) ==
    LET edge1 == Sub(self.v1, self.v0)
        edge2 == Sub(self.v2, self.v0)
        oc == Sub(ray.origin, self.v0)
        s1 == Cross(ray.dir, edge2)
        s2 == Cross(oc, edge1)
        divisor == Dot(s1, edge1)
        sg == IF divisor > 0 THEN 1 ELSE -1
        t == Quot(Dot(s2, edge2), divisor)
        \* b1 >= 0 and b2 >= 0 and b1 + b2 <= 1, each a quotient by divisor
        inside == /\ Dot(s1, oc) * sg >= 0
                  /\ Dot(s2, ray.dir) * sg >= 0
                  /\ (Dot(s1, oc) + Dot(s2, ray.dir)) * sg <= divisor * sg
        is_hit == divisor # 0 /\ inside /\ t > tmin /\ t < tmax
        \* ray.dir.dot(hit_normal) > 0, hit_normal = edge1 x edge2 normalized
        hit_front == is_hit /\ Dot(ray.dir, Cross(edge1, edge2)) > 0
    IN  HitInfo(is_hit, IF is_hit THEN t ELSE TMAX, hit_front, self.tag, self.uid)

Sphere_intersect(self, ray, tmin, tmax) ==
    LET oc == Sub(ray.origin, self.center)
        a == Dot(ray.dir, ray.dir)
        b == 2 * Dot(oc, ray.dir)
        c == Dot(oc, oc) - self.radius * self.radius
        discriminant == b * b - 4 * a * c
        t == DivEps(-b - Sqrt(discriminant), 2 * a)
        is_hit == discriminant > 0 /\ t > tmin /\ t < tmax
        \* ray.dir.dot(hit_pos - center) > 0 with hit_pos = origin + t * dir
        hit_front == is_hit /\ Dot(ray.dir, oc) + t * a > 0
    IN  HitInfo(is_hit, IF is_hit THEN t ELSE TMAX, hit_front, self.tag, self.uid)

\* Scene.bruteforce_intersect: sc holds the fields of the Scene
RECURSIVE bruteforce_triangles(_, _, _, _, _)
bruteforce_triangles(sc, ray, tmin, hitinfo, index) ==
    IF index >= sc.tri_ptr THEN hitinfo
    ELSE LET hitinfo_tmp == Triangle_intersect(sc.triangles[index], ray, tmin, hitinfo.time)
         IN  bruteforce_triangles(sc, ray, tmin,
                 IF hitinfo_tmp.is_hit /\ hitinfo_tmp.time < hitinfo.time
                 THEN hitinfo_tmp ELSE hitinfo, index + 1)

RECURSIVE bruteforce_spheres(_, _, _, _, _)
bruteforce_spheres(sc, ray, tmin, hitinfo, index) ==
    IF index >= sc.sphere_ptr THEN hitinfo
    ELSE LET hitinfo_tmp == Sphere_intersect(sc.spheres[index], ray, tmin, hitinfo.time)
         IN  bruteforce_spheres(sc, ray, tmin,
                 IF hitinfo_tmp.is_hit /\ hitinfo_tmp.time < hitinfo.time
                 THEN hitinfo_tmp ELSE hitinfo, index + 1)

\* a scan that stops after the triangles
bruteforce_intersect_triangles_only(sc, ray, tmin, tmax) ==
    bruteforce_triangles(sc, ray, tmin, NoHit(tmax), 0)

bruteforce_intersect(sc, ray, tmin, tmax) ==
    bruteforce_spheres(sc, ray, tmin,
        bruteforce_triangles(sc, ray, tmin, NoHit(tmax), 0), 0)

\* Scene.intersect
intersect(sc, ray, tmin, tmax) == bruteforce_intersect(sc, ray, tmin, tmax)

\* a push that moves the pointer and stores nothing
Push_dropped(s, v) == [s EXCEPT !.stack_ptr = s.stack_ptr + 1, !.lost = TRUE]

\* stack[i] = v on the local vector of bvh_intersect; a store past its end
\* is recorded in lost
Push(s, v) ==
    IF s.stack_ptr \in DOMAIN s.stack
    THEN [s EXCEPT !.stack[s.stack_ptr] = v, !.stack_ptr = s.stack_ptr + 1,
                   !.high = Max2(s.high, s.stack_ptr + 1)]
    ELSE [s EXCEPT !.stack_ptr = s.stack_ptr + 1, !.lost = TRUE]

\* the while loop of Scene.bvh_intersect
RECURSIVE bvh_loop(_, _, _, _, _)
bvh_loop(sc, ray, tmin, nan, s) ==
    IF s.stack_ptr <= 0 THEN s
    ELSE
      LET sp == s.stack_ptr - 1
          node_id == s.stack[sp]
          s1 == [s EXCEPT !.stack_ptr = sp, !.stack[sp] = -1]
      IN  IF node_id = -1 THEN bvh_loop(sc, ray, tmin, nan, s1)
          ELSE
            LET node == sc.nodes[node_id]
                aabb_hit == AABB_intersect(node.aabb, ray, tmin, s1.hitinfo.time, nan)
            IN  IF ~aabb_hit.is_hit \/ Ge(aabb_hit.tmin, s1.hitinfo.time)
                THEN bvh_loop(sc, ray, tmin, nan, s1)
                ELSE IF node.obj_id # -1
                THEN
                  LET hitinfo_tmp ==
                        IF node.obj_id < sc.tri_ptr
                        THEN Triangle_intersect(sc.triangles[node.obj_id], ray, tmin,
                                                s1.hitinfo.time)
                        ELSE IF node.obj_id < sc.tri_ptr + sc.sphere_ptr
                        THEN Sphere_intersect(sc.spheres[node.obj_id - sc.tri_ptr], ray, tmin,
                                              s1.hitinfo.time)
                        ELSE s1.hitinfo_tmp
                  IN  bvh_loop(sc, ray, tmin, nan,
                          [s1 EXCEPT !.hitinfo_tmp = hitinfo_tmp,
                                     !.hitinfo = IF hitinfo_tmp.is_hit
                                                    /\ hitinfo_tmp.time < s1.hitinfo.time
                                                 THEN hitinfo_tmp ELSE s1.hitinfo])
                ELSE
                  LET s2 == IF node.right_id # -1 THEN Push(s1, node.right_id) ELSE s1
                      s3 == IF node.left_id # -1 THEN Push(s2, node.left_id) ELSE s2
                  IN  bvh_loop(sc, ray, tmin, nan, s3)

\* Scene.bvh_intersect, with the final state of the stack; high is the
\* largest number of entries the stack held
bvh_traverse(sc, ray, tmin, tmax, nan) ==
    bvh_loop(sc, ray, tmin, nan,
        [stack |-> [i \in 0 .. 2 * (sc.tri_ptr + sc.sphere_ptr) - 1 |->
                        IF i = 0 THEN sc.root_id ELSE -1],
         stack_ptr |-> 1,
         high |-> 1,
         lost |-> FALSE,
         hitinfo |-> NoHit(tmax),
         hitinfo_tmp |-> NoHit(tmax)])

bvh_intersect(sc, ray, tmin, tmax, nan) == bvh_traverse(sc, ray, tmin, tmax, nan).hitinfo

\* ---------------------------------------------------------------- inputs
\* primitives the scene-construction code creates
TriA == Triangle(PBR, vec3(0, 0, 0), vec3(4, 0, 0), vec3(0, 4, 0), FALSE)

SphA == Sphere(PBR, vec3(1, 1, -10), 2, TRUE)

Primitives == {TriA, SphA}

\* meshes: tag, emission and the vertex and index arrays of the geometry
MeshA ==
    [tag |-> PBR, emissive |-> TRUE,
     vertices |-> <<vec3(0, 0, -4), vec3(4, 0, -4), vec3(0, 4, -4), vec3(4, 4, -4)>>,
     indices |-> <<(<<0, 1, 2>>), (<<1, 3, 2>>)>>]

MeshB ==
    [tag |-> GLASS, emissive |-> FALSE,
     vertices |-> <<vec3(0, 0, 2), vec3(0, 4, 2), vec3(0, 0, 6)>>,
     indices |-> <<(<<0, 1, 2>>)>>]

Meshes == {MeshA, MeshB}

Rays ==
    {Ray(vec3(1, 1, 4), vec3(0, 0, -1)),
     Ray(vec3(1, 1, -20), vec3(0, 0, 1)),
     Ray(vec3(20, 1, 3), vec3(-1, 0, 0)),
     Ray(vec3(20, 20, 20), vec3(0, 1, 0))}

\* the (tmin, tmax) pairs of the queries
Ranges == {<<TMIN, TMAX>>, <<5, 12>>}

\* ----------------------------------------------------------------- state
VARIABLES objects, light_map, light_ptr, triangles, tri_ptr, spheres, sphere_ptr,
          nodes, used_nodes, root_id, makes, err, res, cur_mesh, pt, rp, fe, probe,
          fbvh

vars == <<objects, light_map, light_ptr, triangles, tri_ptr, spheres, sphere_ptr,
          nodes, used_nodes, root_id, makes, err, res, cur_mesh, pt, rp, fe, probe, fbvh>>

\* the state outside the Scene and its BVH
others == <<cur_mesh, pt, rp, fe, probe, fbvh>>

\* no call of PathTracer.ray_color is running
NoPath == [status |-> "idle"]

Pixels == 1 .. NumPixels

\* Camera.__init__ and the buffers of FrontEnd.__init__: every Taichi field is
\* zero.  The camera's position and fov are known by the number of the pose
\* (0: the zero field), and so is every value computed from them
FrontEnd_render_init ==
    [running |-> FALSE,
     lookfrom |-> 0,
     lower_left_corner |-> 0, prev_view_proj |-> 0, curr_view_proj |-> 0,
     spp |-> 1,
     workers |-> [p \in Pixels |-> [pc |-> "done", sample |-> 0, tmp |-> 0, ray |-> 0]],
     tmp_buffers |-> [p \in Pixels |-> 0]]

\* FrontEnd.__init__ and InputTracer.__init__, as run() finds them.  params is
\* the number of changes made to the camera and to the parameters of the
\* camera and the renderer; a frame is known by the value of params it was
\* rendered with; acc_buffers and pixels by the set of the frames summed in
\* them; frame_params is the value of params when the iteration began;
\* frames is the number of frames summed in acc_buffers
FrontEnd_init ==
    [pc |-> "ui", show_panel |-> FALSE, panel_update |-> FALSE, cnt |-> 0,
     params |-> 0, frame_params |-> 0, keys |-> "none",
     tmp_buffers |-> {}, acc_buffers |-> {}, pixels |-> {}, frames |-> 0]

\* no call of an intersect function is in flight
NoCall == [fn |-> "none"]

\* the BVH of src/core/bvh.py has not been constructed
NoBVH == [made |-> FALSE]

\* Mesh.__init__: no tag, no geometry, no material
Mesh == [tag |-> <<>>, geometry |-> <<>>, material |-> "None", emissive |-> FALSE]

\* the fields of the Scene the queries read
self ==
    [nodes |-> nodes, root_id |-> root_id, triangles |-> triangles, tri_ptr |-> tri_ptr,
     spheres |-> spheres, sphere_ptr |-> sphere_ptr]

NoRes == [kind |-> "none"]

\* Scene.__init__
Init ==
    /\ objects = <<>>
    /\ light_map = [i \in 0 .. maximum - 1 |-> 0]
    /\ light_ptr = 0
    /\ triangles = [i \in 0 .. maximum - 1 |-> ZeroTriangle]
    /\ tri_ptr = 0
    /\ spheres = [i \in 0 .. maximum - 1 |-> ZeroSphere]
    /\ sphere_ptr = 0
    /\ nodes = set_objects(<<>>).nodes
    /\ used_nodes = 0
    /\ root_id = -1
    /\ makes = 0
    /\ err = "none"
    /\ res = NoRes
    /\ cur_mesh = Mesh
    /\ pt = NoPath
    /\ rp = FrontEnd_render_init
    /\ fe = FrontEnd_init
    /\ probe = NoCall
    /\ fbvh = NoBVH

\* self.objects.append(Abstraction(obj)); the position gives the object its uid
append(objs, obj) == Append(objs, Abstraction([obj EXCEPT !.uid = Len(objs) + 1]))

\* numpy's vertices[i]: it raises IndexError outside [-n, n), and a negative i
\* counts from the end of the array
InRange(vertices, i) == -Len(vertices) <= i /\ i < Len(vertices)

VertexAt(vertices, i) ==
    IF i >= 0 THEN vertices[i + 1] ELSE vertices[Len(vertices) + i + 1]

\* the three reads of row index of the index array succeed
RowReadable(mesh, index) ==
    \A k \in 1 .. 3 : InRange(mesh.vertices, mesh.indices[index + 1][k])

\* Scene._add_mesh_from_arrays, rows index .. n_tris - 1 of the index array;
\* the loop ends at the first row whose read raises
RECURSIVE add_mesh_rows(_, _, _)
add_mesh_rows(objs, mesh, index) ==
    IF index >= Len(mesh.indices) \/ ~RowReadable(mesh, index) THEN objs
    ELSE LET row == mesh.indices[index + 1]
             obj == Triangle(mesh.tag, VertexAt(mesh.vertices, row[1]),
                             VertexAt(mesh.vertices, row[2]),
                             VertexAt(mesh.vertices, row[3]), mesh.emissive)
         IN  add_mesh_rows(append(objs, init4bbox(obj)), mesh, index + 1)

\* Scene.add_obj(Triangle | Sphere); boxed: the caller ran init4bbox on it
add_obj(obj, boxed) ==
    /\ err = "none"
    /\ res = NoRes
    /\ Len(objects) + 1 <= MaxObjs
    /\ objects' = append(objects, IF boxed THEN init4bbox(obj) ELSE obj)
    /\ UNCHANGED <<light_map, light_ptr, triangles, tri_ptr, spheres, sphere_ptr,
                   nodes, used_nodes, root_id, makes, err, res>>
    /\ UNCHANGED others

\* Scene.add_obj(Mesh) -> add_mesh -> _add_mesh -> _add_mesh_from_arrays
add_mesh(mesh) ==
    /\ err = "none"
    /\ res = NoRes
    /\ Len(objects) + Len(mesh.indices) <= MaxObjs
    /\ objects' = add_mesh_rows(objects, mesh, 0)
    /\ err' = IF \A index \in 0 .. Len(mesh.indices) - 1 : RowReadable(mesh, index)
              THEN err ELSE "IndexError"
    /\ UNCHANGED <<light_map, light_ptr, triangles, tri_ptr, spheres, sphere_ptr,
                   nodes, used_nodes, root_id, makes, res>>
    /\ UNCHANGED others

\* field[i] = v from Python scope: inside the field it stores; past its end
\* the store is unchecked (nothing visible happens) unless the runtime was
\* started with debug=True, which raises
Store(field, i, v) == IF i \in DOMAIN field THEN [field EXCEPT ![i] = v] ELSE field

Raises(field, i, debug) == debug /\ i \notin DOMAIN field

\* the loop of Scene.make over enumerate(self.objects), from index on
RECURSIVE make_loop(_, _, _)
make_loop(s, index, debug) ==
    IF index >= Len(s.objects) \/ s.err # "none" THEN s
    ELSE
      LET obj == s.objects[index + 1]
          is_light == obj.tag = PBR /\ obj.entity.emissive
          s1 == IF ~is_light THEN s
                ELSE IF Raises(s.light_map, s.light_ptr, debug)
                THEN [s EXCEPT !.err = "OutOfBounds"]
                ELSE [s EXCEPT !.light_map = Store(s.light_map, s.light_ptr, index),
                               !.light_ptr = s.light_ptr + 1]
          s2 == IF s1.err # "none" THEN s1
                ELSE IF obj.shape = "TRIANGLE"
                THEN IF Raises(s1.triangles, s1.tri_ptr, debug)
                     THEN [s1 EXCEPT !.err = "OutOfBounds"]
                     ELSE [s1 EXCEPT !.triangles = Store(s1.triangles, s1.tri_ptr, obj.entity),
                                     !.tri_ptr = s1.tri_ptr + 1]
                ELSE IF obj.shape = "SPHERE"
                THEN IF Raises(s1.spheres, s1.sphere_ptr, debug)
                     THEN [s1 EXCEPT !.err = "OutOfBounds"]
                     ELSE [s1 EXCEPT !.spheres = Store(s1.spheres, s1.sphere_ptr, obj.entity),
                                     !.sphere_ptr = s1.sphere_ptr + 1]
                ELSE s1
      IN  make_loop(s2, index + 1, debug)

\* Scene.make() on a scene with at least one object
make ==
    /\ err = "none"
    /\ res = NoRes
    /\ makes < MaxMakes
    /\ Len(objects) >= 1
    /\ \E rnd \in [1 .. Len(objects) - 1 -> Axes], debug \in BOOLEAN :
         \E b \in {build(set_objects(objects), rnd)} :
           \E s \in {make_loop([objects |-> b.objects, light_map |-> light_map,
                                light_ptr |-> light_ptr, triangles |-> triangles,
                                tri_ptr |-> tri_ptr, spheres |-> spheres,
                                sphere_ptr |-> sphere_ptr, err |-> "none"], 0, debug)} :
             /\ objects' = b.objects
             /\ nodes' = b.nodes
             /\ used_nodes' = b.used_nodes
             /\ root_id' = b.root_id
             /\ light_map' = s.light_map
             /\ light_ptr' = s.light_ptr
             /\ triangles' = s.triangles
             /\ tri_ptr' = s.tri_ptr
             /\ spheres' = s.spheres
             /\ sphere_ptr' = s.sphere_ptr
             /\ err' = s.err
    /\ makes' = makes + 1
    /\ UNCHANGED res
    /\ UNCHANGED others

\* Scene.make() on a scene without objects: _build(objects, 0, 0) calls itself
\* on the same empty range until the interpreter raises RecursionError (or,
\* with debug=True, until the second call stores past the one-cell node field)
make_empty ==
    /\ err = "none"
    /\ res = NoRes
    /\ makes < MaxMakes
    /\ Len(objects) = 0
    /\ \E debug \in BOOLEAN :
         /\ nodes' = [set_objects(objects).nodes EXCEPT ![0] = BVHNode(ZeroAABB, -1, -1, -1)]
         /\ used_nodes' = IF debug THEN 2 ELSE RecursionLimit
         /\ err' = IF debug THEN "OutOfBounds" ELSE "RecursionError"
    /\ root_id' = -1
    /\ makes' = makes + 1
    /\ UNCHANGED <<objects, light_map, light_ptr, triangles, tri_ptr, spheres, sphere_ptr, res>>
    /\ UNCHANGED others

\* the arrays hold every cell the queries read
InCapacity == tri_ptr <= maximum /\ sphere_ptr <= maximum

\* one ray sent through Scene.intersect and through Scene.bvh_intersect; the
\* HitInfo values are held in res until the caller is done with them.  The
\* scene is built and changed between render passes only, never while a
\* query is in flight (the operations above wait for res = NoRes)
query(ray, tmin, tmax) ==
    /\ err = "none"
    /\ makes >= 1
    /\ res = NoRes
    /\ InCapacity
    /\ \E nan \in {"num", "nan"} :
         \E t \in {bvh_traverse(self, ray, tmin, tmax, nan)} :
             res' = [kind |-> "query", ray |-> ray, tmin |-> tmin, tmax |-> tmax,
                     hit |-> intersect(self, ray, tmin, tmax),
                     bvh |-> t.hitinfo,
                     high |-> t.high, lost |-> t.lost, stack_ptr |-> t.stack_ptr]
    /\ UNCHANGED <<objects, light_map, light_ptr, triangles, tri_ptr, spheres, sphere_ptr,
                   nodes, used_nodes, root_id, makes, err>>
    /\ UNCHANGED others

\* the caller drops the result of its query
release ==
    /\ res # NoRes
    /\ res' = NoRes
    /\ UNCHANGED <<objects, light_map, light_ptr, triangles, tri_ptr, spheres, sphere_ptr,
                   nodes, used_nodes, root_id, makes, err>>
    /\ UNCHANGED others

\* ------------------------------------------------- meshes and Scene[i]
\* GeometryData.__post_init__ raises: np.max(indices) >= len(vertices)
GeometryData_raises(vertices, indices) ==
    \E r \in 1 .. Len(indices), k \in 1 .. 3 : indices[r][k] >= Len(vertices)

GeometryData(vertices, indices) == [vertices |-> vertices, indices |-> indices]

\* MaterialFactory.create_material: no branch, and so no return value, for any
\* other tag
create_material(tag) ==
    IF tag = PBR THEN "PBRMaterial" ELSE IF tag = GLASS THEN "GlassMaterial" ELSE "None"

\* vertex and index arrays handed to Mesh.load_geometry
Geometries ==
    {GeometryData(MeshB.vertices, <<(<<0, 1, 2>>)>>),
     GeometryData(MeshB.vertices, <<(<<-1, 0, 1>>)>>),
     GeometryData(MeshB.vertices, <<(<<0, 1, 3>>)>>),
     GeometryData(MeshB.vertices, <<(<<0, 1, 2>>), (<<0, 1, -4>>)>>)}

\* (tag, emission > 0) handed to Mesh.set_material
Materials == {<<PBR, TRUE>>, <<GLASS, FALSE>>, <<7, FALSE>>}

\* Mesh.load_geometry, called once on each Mesh object
load_geometry(vertices, indices) ==
    /\ err = "none"
    /\ res = NoRes
    /\ cur_mesh.geometry = <<>>
    /\ IF GeometryData_raises(vertices, indices)
       THEN err' = "ValueError" /\ UNCHANGED cur_mesh
       ELSE /\ cur_mesh' = [cur_mesh EXCEPT !.geometry = <<GeometryData(vertices, indices)>>]
            /\ UNCHANGED err
    /\ UNCHANGED <<objects, light_map, light_ptr, triangles, tri_ptr, spheres, sphere_ptr,
                   nodes, used_nodes, root_id, makes, res, pt, rp, fe, probe, fbvh>>

\* Mesh.set_material, called once on each Mesh object
set_material(tag, emissive) ==
    /\ err = "none"
    /\ res = NoRes
    /\ cur_mesh.tag = <<>>
    /\ cur_mesh' = [cur_mesh EXCEPT !.tag = <<tag>>, !.emissive = emissive,
                                    !.material = create_material(tag)]
    /\ UNCHANGED <<objects, light_map, light_ptr, triangles, tri_ptr, spheres, sphere_ptr,
                   nodes, used_nodes, root_id, makes, err, res, pt, rp, fe, probe, fbvh>>

\* Scene.add_obj(mesh) for the Mesh object: _add_mesh adds its triangles if
\* it has a geometry and a tag (and does nothing otherwise)
add_obj_Mesh ==
    /\ cur_mesh.geometry # <<>>
    /\ cur_mesh.tag # <<>>
    /\ add_mesh([tag |-> cur_mesh.tag[1], emissive |-> cur_mesh.emissive,
                 vertices |-> cur_mesh.geometry[1].vertices,
                 indices |-> cur_mesh.geometry[1].indices])

\* Scene.__getitem__: the object returned or the exception raised is held in
\* res until the caller is done with it
getitem(index) ==
    /\ err = "none"
    /\ makes >= 1
    /\ res = NoRes
    /\ InCapacity
    /\ res' = IF 0 <= index /\ index < tri_ptr
              THEN [kind |-> "getitem", index |-> index, raised |-> "none",
                    obj |-> triangles[index]]
              ELSE IF tri_ptr <= index /\ index < tri_ptr + sphere_ptr
              THEN [kind |-> "getitem", index |-> index, raised |-> "none",
                    obj |-> spheres[index - tri_ptr]]
              ELSE [kind |-> "getitem", index |-> index, raised |-> "IndexError",
                    obj |-> ZeroTriangle]
    /\ UNCHANGED <<objects, light_map, light_ptr, triangles, tri_ptr, spheres, sphere_ptr,
                   nodes, used_nodes, root_id, makes, err>>
    /\ UNCHANGED others

\* indices handed to Scene[i]
Indices == -1 .. 2 * maximum

Next ==
    \/ \E obj \in Primitives, boxed \in BOOLEAN : add_obj(obj, boxed)
    \/ \E mesh \in Meshes : add_mesh(mesh)
    \/ make
    \/ make_empty
    \/ \E ray \in Rays, rg \in Ranges : query(ray, rg[1], rg[2])
    \/ release

Spec == Init /\ [][Next]_vars

\* ------------------------------------------------------------ path tracer
\* radiance and throughput are one colour channel, a rational <<n, d>> in
\* lowest terms; a value of ti.random() is known by the cell of [0, 1) it
\* falls in, and p_rr is a cell boundary: p_rr cells out of RandomCells
RECURSIVE GCD(_, _)
GCD(a, b) == IF b = 0 THEN a ELSE GCD(b, a % b)

Rat(n, d) == <<n \div GCD(n, d), d \div GCD(n, d)>>

RMul(a, b) == Rat(a[1] * b[1], a[2] * b[2])

RDiv(a, b) == Rat(a[1] * b[2], a[2] * b[1])

RAdd(a, b) == Rat(a[1] * b[2] + b[1] * a[2], a[2] * b[2])

\* what scene.intersect returns and what the shading of the hit multiplies
\* and adds: f scales the throughput (albedo, cosine), direct is the direct
\* light term, e the emission (for a miss: the background light)
Hit(kind, f, direct, e) == [kind |-> kind, f |-> f, direct |-> direct, e |-> e]

Hits ==
    {Hit("PBR", <<1, 2>>, <<1, 1>>, <<0, 1>>),
     Hit("PBR", <<1, 1>>, <<0, 1>>, <<1, 1>>),
     Hit("GLASS", <<1, 2>>, <<0, 1>>, <<0, 1>>),
     Hit("OTHER", <<1, 1>>, <<0, 1>>, <<0, 1>>),
     Hit("MISS", <<1, 1>>, <<0, 1>>, <<1, 1>>)}

\* a roulette that also runs on the first bounce
rr_applies_always(bounce) == bounce >= 0

\* bounce > 0: the iterations that run the roulette
rr_applies(bounce) == bounce > 0

\* ti.random() > self.p_rr[None], for a value in cell r
rr_break(r, p_rr) == r >= p_rr

\* a roulette without compensation
compensate_none(luminance, p_rr) == luminance

\* luminance /= self.p_rr[None]
compensate(luminance, p_rr) == RDiv(luminance, <<p_rr, RandomCells>>)

\* the state of ray_color when the loop is entered
ray_color_enter(max_depth, p_rr, scene) ==
    [status |-> IF max_depth > 0 THEN "running" ELSE "depth",
     bounce |-> 0, max_depth |-> max_depth, p_rr |-> p_rr, scene |-> scene,
     luminance |-> <<1, 1>>, color_buffer |-> <<0, 1>>]

\* one pass of the loop body of ray_color, the roulette value in cell r
ray_color_bounce(s, r) ==
    LET hitinfo == s.scene[s.bounce + 1]
        lum == IF rr_applies(s.bounce) THEN compensate(s.luminance, s.p_rr) ELSE s.luminance
        next == IF s.bounce + 1 >= s.max_depth THEN "depth" ELSE "running"
    IN  IF rr_applies(s.bounce) /\ rr_break(r, s.p_rr) THEN [s EXCEPT !.status = "rr"]
        ELSE IF hitinfo.kind = "MISS"
        THEN [s EXCEPT !.status = "escape", !.luminance = lum,
                       !.color_buffer = RAdd(s.color_buffer, RMul(hitinfo.e, lum))]
        ELSE IF hitinfo.kind = "PBR"
        THEN [s EXCEPT !.status = next, !.bounce = s.bounce + 1,
                       !.luminance = RMul(lum, hitinfo.f),
                       !.color_buffer =
                           RAdd(RAdd(s.color_buffer, RMul(hitinfo.direct, lum)),
                                RMul(RMul(lum, hitinfo.f), hitinfo.e))]
        ELSE IF hitinfo.kind = "GLASS"
        THEN [s EXCEPT !.status = next, !.bounce = s.bounce + 1,
                       !.luminance = RMul(lum, hitinfo.f)]
        ELSE [s EXCEPT !.status = next, !.bounce = s.bounce + 1, !.luminance = lum]

\* a pixel worker calls ray_color; scene[b + 1] is what the ray of bounce b hits
ray_color_call(max_depth, p_rr, scene) ==
    /\ pt = NoPath
    /\ pt' = ray_color_enter(max_depth, p_rr, scene)
    /\ UNCHANGED <<objects, light_map, light_ptr, triangles, tri_ptr, spheres, sphere_ptr,
                   nodes, used_nodes, root_id, makes, err, res, cur_mesh, rp, fe, probe, fbvh>>

\* one iteration of the loop of ray_color
bounce_step(r) ==
    /\ pt.status = "running"
    /\ pt' = ray_color_bounce(pt, r)
    /\ UNCHANGED <<objects, light_map, light_ptr, triangles, tri_ptr, spheres, sphere_ptr,
                   nodes, used_nodes, root_id, makes, err, res, cur_mesh, rp, fe, probe, fbvh>>

\* return color_buffer
ray_color_return ==
    /\ pt.status \in {"depth", "rr", "escape"}
    /\ pt' = NoPath
    /\ UNCHANGED <<objects, light_map, light_ptr, triangles, tri_ptr, spheres, sphere_ptr,
                   nodes, used_nodes, root_id, makes, err, res, cur_mesh, rp, fe, probe, fbvh>>

NextPath ==
    \/ \E max_depth \in 0 .. MaxDepth, p_rr \in 1 .. RandomCells :
          \E scene \in [1 .. max_depth -> Hits] : ray_color_call(max_depth, p_rr, scene)
    \/ \E r \in 0 .. RandomCells - 1 : bounce_step(r)
    \/ ray_color_return

SpecPath == Init /\ [][NextPath]_vars

\* the calls in which every ray hits the diffuse surface or leaves the scene
NextPathFair ==
    \/ \E max_depth \in 0 .. MaxDepth, p_rr \in 1 .. RandomCells :
          \E scene \in [1 .. max_depth -> {h \in Hits : h.direct = <<1, 1>> \/ h.kind = "MISS"}] :
              ray_color_call(max_depth, p_rr, scene)
    \/ \E r \in 0 .. RandomCells - 1 : bounce_step(r)
    \/ ray_color_return

\* a running loop of ray_color takes its next iteration: a Taichi kernel is
\* not suspended
SpecPathFair ==
    Init /\ [][NextPathFair]_vars /\ WF_vars(\E r \in 0 .. RandomCells - 1 : bounce_step(r))

\* ------------------------------------------------------------ render pass
\* the host moves the camera (set_lookfrom, Camera.track) between two passes
camera_move ==
    /\ ~rp.running
    /\ rp.lookfrom < MaxPoses
    /\ rp' = [rp EXCEPT !.lookfrom = rp.lookfrom + 1]
    /\ UNCHANGED <<objects, light_map, light_ptr, triangles, tri_ptr, spheres, sphere_ptr,
                   nodes, used_nodes, root_id, makes, err, res, cur_mesh, pt, fe, probe, fbvh>>

\* FrontEnd.render is launched: one worker per pixel of tmp_buffers
render_launch(spp) ==
    /\ ~rp.running
    /\ rp.lookfrom >= 1
    /\ rp' = [rp EXCEPT !.running = TRUE, !.spp = spp,
                        !.workers = [p \in Pixels |->
                                        [pc |-> "update", sample |-> 0, tmp |-> 0, ray |-> 0]]]
    /\ UNCHANGED <<objects, light_map, light_ptr, triangles, tri_ptr, spheres, sphere_ptr,
                   nodes, used_nodes, root_id, makes, err, res, cur_mesh, pt, fe, probe, fbvh>>

\* Camera.get_ray -> Camera.update, up to the read of curr_view_proj: the
\* worker stores the fields computed from lookfrom, lookat and fov
camera_update_read(p) ==
    /\ rp.running
    /\ rp.workers[p].pc = "update"
    /\ rp' = [rp EXCEPT !.lower_left_corner = rp.lookfrom,
                        !.workers[p].tmp = rp.curr_view_proj,
                        !.workers[p].pc = "update_write"]
    /\ UNCHANGED <<objects, light_map, light_ptr, triangles, tri_ptr, spheres, sphere_ptr,
                   nodes, used_nodes, root_id, makes, err, res, cur_mesh, pt, fe, probe, fbvh>>

\* Camera.update: prev_view_proj = (value read); curr_view_proj = proj @ view
camera_update_write(p) ==
    /\ rp.running
    /\ rp.workers[p].pc = "update_write"
    /\ rp' = [rp EXCEPT !.prev_view_proj = rp.workers[p].tmp,
                        !.curr_view_proj = rp.lookfrom,
                        !.workers[p].pc = "trace"]
    /\ UNCHANGED <<objects, light_map, light_ptr, triangles, tri_ptr, spheres, sphere_ptr,
                   nodes, used_nodes, root_id, makes, err, res, cur_mesh, pt, fe, probe, fbvh>>

\* the Ray get_ray returns, and renderer.ray_color on it (queries of the
\* Scene, which store nothing)
render_sample(p) ==
    /\ rp.running
    /\ rp.workers[p].pc = "trace"
    /\ rp' = [rp EXCEPT !.workers[p].ray = rp.lower_left_corner,
                        !.workers[p].sample = rp.workers[p].sample + 1,
                        !.workers[p].pc = IF rp.workers[p].sample + 1 < rp.spp
                                          THEN "update" ELSE "store"]
    /\ UNCHANGED <<objects, light_map, light_ptr, triangles, tri_ptr, spheres, sphere_ptr,
                   nodes, used_nodes, root_id, makes, err, res, cur_mesh, pt, fe, probe, fbvh>>

\* self.tmp_buffers[i, j] = ...; self.g_buffer[i, j] = ...
render_store(p) ==
    /\ rp.running
    /\ rp.workers[p].pc = "store"
    /\ rp' = [rp EXCEPT !.tmp_buffers[p] = rp.workers[p].ray,
                        !.workers[p].pc = "done"]
    /\ UNCHANGED <<objects, light_map, light_ptr, triangles, tri_ptr, spheres, sphere_ptr,
                   nodes, used_nodes, root_id, makes, err, res, cur_mesh, pt, fe, probe, fbvh>>

\* the kernel returns when every worker is done
render_return ==
    /\ rp.running
    /\ \A p \in Pixels : rp.workers[p].pc = "done"
    /\ rp' = [rp EXCEPT !.running = FALSE]
    /\ UNCHANGED <<objects, light_map, light_ptr, triangles, tri_ptr, spheres, sphere_ptr,
                   nodes, used_nodes, root_id, makes, err, res, cur_mesh, pt, fe, probe, fbvh>>

NextRender ==
    \/ camera_move
    \/ \E spp \in 1 .. MaxSpp : render_launch(spp)
    \/ \E p \in Pixels : camera_update_read(p)
    \/ \E p \in Pixels : camera_update_write(p)
    \/ \E p \in Pixels : render_sample(p)
    \/ \E p \in Pixels : render_store(p)
    \/ render_return

SpecRender == Init /\ [][NextRender]_vars

\* ------------------------------------------------------------- frame loop
\* what the user does with the panel during a frame: nothing, a slider of the
\* renderer (spp, depth, p_rr, ...), the fov slider of the camera, the
\* Target FPS slider, the Refresh button
Widgets == {"none", "renderer", "fov", "fps", "refresh"}

\* what the window reports as pressed: nothing, a movement key (w, a, s, d,
\* SPACE, SHIFT), LMB with the cursor moved, LMB or RMB alone, r
Keys == {"none", "move", "drag", "button", "r"}

\* InputTracer.on_move: one of holdkeys is pressed
on_move(keys) == keys \in {"move", "drag", "button"}

\* InputTracer.refresh
refresh(keys) == keys = "r"

\* a clear on the r key only
should_clear_on_refresh(keys, show_panel) == refresh(keys)

\* InputTracer.should_clear
should_clear(keys, show_panel) == (on_move(keys) /\ ~show_panel) \/ refresh(keys)

\* while self.window.running; self.ui.render()
ui_render(widget) ==
    /\ fe.pc = "ui"
    /\ fe.cnt < MaxFrames
    /\ widget # "none" => fe.show_panel
    /\ widget \in {"renderer", "fov"} => fe.params < MaxChanges
    /\ fe' = [fe EXCEPT !.pc = "control_panel",
                        !.frame_params = fe.params,
                        !.panel_update = widget # "none",
                        !.params = IF widget \in {"renderer", "fov"}
                                   THEN fe.params + 1 ELSE fe.params]
    /\ UNCHANGED <<objects, light_map, light_ptr, triangles, tri_ptr, spheres, sphere_ptr,
                   nodes, used_nodes, root_id, makes, err, res, cur_mesh, pt, rp, probe, fbvh>>

\* self.input_tracer.control_panel(): a TAB press toggles the panel
control_panel(tab) ==
    /\ fe.pc = "control_panel"
    /\ fe' = [fe EXCEPT !.pc = "track",
                        !.show_panel = IF tab THEN ~fe.show_panel ELSE fe.show_panel]
    /\ UNCHANGED <<objects, light_map, light_ptr, triangles, tri_ptr, spheres, sphere_ptr,
                   nodes, used_nodes, root_id, makes, err, res, cur_mesh, pt, rp, probe, fbvh>>

\* if not self.input_tracer.is_showing_panel(): self.camera.track(self.window)
camera_track(keys) ==
    /\ fe.pc = "track"
    /\ (keys \in {"move", "drag"} /\ ~fe.show_panel) => fe.params < MaxChanges
    /\ fe' = [fe EXCEPT !.pc = "clear",
                        !.keys = keys,
                        !.params = IF keys \in {"move", "drag"} /\ ~fe.show_panel
                                   THEN fe.params + 1 ELSE fe.params]
    /\ UNCHANGED <<objects, light_map, light_ptr, triangles, tri_ptr, spheres, sphere_ptr,
                   nodes, used_nodes, root_id, makes, err, res, cur_mesh, pt, rp, probe, fbvh>>

\* if self.input_tracer.should_clear() | self.panel_update: cnt = 1; clear()
clear_if_changed ==
    /\ fe.pc = "clear"
    /\ fe' = IF should_clear(fe.keys, fe.show_panel) \/ fe.panel_update
             THEN [fe EXCEPT !.pc = "render", !.cnt = 1, !.acc_buffers = {}, !.frames = 0]
             ELSE [fe EXCEPT !.pc = "render"]
    /\ UNCHANGED <<objects, light_map, light_ptr, triangles, tri_ptr, spheres, sphere_ptr,
                   nodes, used_nodes, root_id, makes, err, res, cur_mesh, pt, rp, probe, fbvh>>

\* self.render() and the post processors
frame_render ==
    /\ fe.pc = "render"
    /\ fe' = [fe EXCEPT !.pc = "accumulate", !.tmp_buffers = {fe.params}]
    /\ UNCHANGED <<objects, light_map, light_ptr, triangles, tri_ptr, spheres, sphere_ptr,
                   nodes, used_nodes, root_id, makes, err, res, cur_mesh, pt, rp, probe, fbvh>>

\* self.accumulate(); canvas.set_image(self.pixels); self.cnt[None] += 1
accumulate ==
    /\ fe.pc = "accumulate"
    /\ fe' = [fe EXCEPT !.pc = "ui",
                        !.acc_buffers = fe.acc_buffers \cup fe.tmp_buffers,
                        !.pixels = fe.acc_buffers \cup fe.tmp_buffers,
                        !.frames = fe.frames + 1,
                        !.cnt = fe.cnt + 1]
    /\ UNCHANGED <<objects, light_map, light_ptr, triangles, tri_ptr, spheres, sphere_ptr,
                   nodes, used_nodes, root_id, makes, err, res, cur_mesh, pt, rp, probe, fbvh>>

NextFrame ==
    \/ \E widget \in Widgets : ui_render(widget)
    \/ \E tab \in BOOLEAN : control_panel(tab)
    \/ \E keys \in Keys : camera_track(keys)
    \/ clear_if_changed
    \/ frame_render
    \/ accumulate

SpecFrame == Init /\ [][NextFrame]_vars

\* ------------------------------------------- the intersect functions alone
\* the triangle (0,0,0), (1,0,0), (0,1,0), in units of TMIN
TriUnit == Triangle(PBR, vec3(0, 0, 0), vec3(1000, 0, 0), vec3(0, 1000, 0), FALSE)

\* the box [-1, 1]^3 around the origin, in units of TMIN
BoxUnit == AABB(vec3(-1000, -1000, -1000), vec3(1000, 1000, 1000))

\* triangles and the rays sent at them
TriangleCalls ==
    ({TriUnit} \X {Ray(vec3(250, 250, 1000), vec3(0, 0, -1)),
                   Ray(vec3(250, 250, -1000), vec3(0, 0, 1)),
                   Ray(vec3(900, 900, 1000), vec3(0, 0, -1)),
                   Ray(vec3(250, 250, 1000), vec3(1, 0, 0)),
                   Ray(vec3(0, 500, 1000), vec3(0, 0, -1))})
    \cup ({TriA, init4bbox(TriA)} \X Rays)

\* spheres and the rays sent at them: from outside, from the centre, from
\* inside towards the far side, along a tangent, past the sphere
SphereCalls ==
    {init4bbox(SphA), Sphere(GLASS, vec3(0, 0, 0), 5, FALSE)}
    \X (Rays \cup {Ray(vec3(1, 1, -10), vec3(0, 0, 1)),
                   Ray(vec3(0, 0, 3), vec3(0, 0, 1)),
                   Ray(vec3(5, 0, -8), vec3(0, 0, 1)),
                   Ray(vec3(0, 0, 8), vec3(0, 0, 1))})

\* boxes and the rays sent at them: through the box, parallel to a slab
\* outside of it, inside of it and on its boundary
AABBCalls ==
    ({BoxUnit} \X {Ray(vec3(2000, 500, 500), vec3(-1, 0, 0)),
                   Ray(vec3(2000, 500, 500), vec3(0, 1, 0)),
                   Ray(vec3(2000, 500, 500), vec3(1, 0, 0)),
                   Ray(vec3(2000, 1000, 500), vec3(-1, 0, 0)),
                   Ray(vec3(2000, -1000, 500), vec3(-1, 0, 0)),
                   Ray(vec3(0, 0, 0), vec3(1, 1, 1)),
                   Ray(vec3(-3000, -3000, -2000), vec3(1, 1, 1))})
    \cup ({init4bbox(TriA).bbox, init4bbox(SphA).bbox, ZeroAABB} \X Rays)

\* the (tmin, tmax) pairs of the calls
CallRanges == {<<TMIN, TMAX>>, <<TMIN, 500>>, <<5, 12>>, <<1500, 2500>>}

\* Triangle.intersect(ray, tmin, tmax)
Triangle_intersect_call(tri, ray, tmin, tmax) ==
    /\ probe = NoCall
    /\ probe' = [fn |-> "Triangle.intersect", obj |-> tri, ray |-> ray, tmin |-> tmin,
                 tmax |-> tmax, nan |-> "num",
                 out |-> Triangle_intersect(tri, ray, tmin, tmax)]
    /\ UNCHANGED <<objects, light_map, light_ptr, triangles, tri_ptr, spheres, sphere_ptr,
                   nodes, used_nodes, root_id, makes, err, res, cur_mesh, pt, rp, fe, fbvh>>

\* Sphere.intersect(ray, tmin, tmax)
Sphere_intersect_call(sph, ray, tmin, tmax) ==
    /\ probe = NoCall
    /\ probe' = [fn |-> "Sphere.intersect", obj |-> sph, ray |-> ray, tmin |-> tmin,
                 tmax |-> tmax, nan |-> "num",
                 out |-> Sphere_intersect(sph, ray, tmin, tmax)]
    /\ UNCHANGED <<objects, light_map, light_ptr, triangles, tri_ptr, spheres, sphere_ptr,
                   nodes, used_nodes, root_id, makes, err, res, cur_mesh, pt, rp, fe, fbvh>>

\* AABB.intersect(ray, tmin, tmax) on a backend whose min and max return the
\* number (nan = "num") or NaN (nan = "nan") when one operand is NaN
AABB_intersect_call(box, ray, tmin, tmax, nan) ==
    /\ probe = NoCall
    /\ probe' = [fn |-> "AABB.intersect", obj |-> box, ray |-> ray, tmin |-> tmin,
                 tmax |-> tmax, nan |-> nan,
                 out |-> AABB_intersect(box, ray, tmin, tmax, nan)]
    /\ UNCHANGED <<objects, light_map, light_ptr, triangles, tri_ptr, spheres, sphere_ptr,
                   nodes, used_nodes, root_id, makes, err, res, cur_mesh, pt, rp, fe, fbvh>>

\* the caller is done with the returned record
intersect_return ==
    /\ probe # NoCall
    /\ probe' = NoCall
    /\ UNCHANGED <<objects, light_map, light_ptr, triangles, tri_ptr, spheres, sphere_ptr,
                   nodes, used_nodes, root_id, makes, err, res, cur_mesh, pt, rp, fe, fbvh>>

NextIntersect ==
    \/ \E c \in TriangleCalls, rg \in CallRanges :
          Triangle_intersect_call(c[1], c[2], rg[1], rg[2])
    \/ \E c \in SphereCalls, rg \in CallRanges :
          Sphere_intersect_call(c[1], c[2], rg[1], rg[2])
    \/ \E c \in AABBCalls, rg \in CallRanges, nan \in {"num", "nan"} :
          AABB_intersect_call(c[1], c[2], rg[1], rg[2], nan)
    \/ intersect_return

SpecIntersect == Init /\ [][NextIntersect]_vars

\* ------------------------------------------------------ shading arithmetic
\* an f32 value: a rational <<n, d>> in lowest terms with d > 0, +inf
\* <<1, 0>>, -inf <<-1, 0>> or NaN <<0, 0>>
Sgn(x) == IF x > 0 THEN 1 ELSE IF x < 0 THEN -1 ELSE 0

Mag(x) == IF x < 0 THEN -x ELSE x

\* n / d for d # 0
f32(n, d) ==
    LET g == GCD(Mag(n), Mag(d)) IN <<(Sgn(d) * n) \div g, Mag(d) \div g>>

f32_nan == <<0, 0>>

f32_inf(sign) == <<sign, 0>>

f32_zero == <<0, 1>>

f32_one == <<1, 1>>

\* IEEE product: inf * 0 is NaN
f32_mul(a, b) ==
    IF a = f32_nan \/ b = f32_nan THEN f32_nan
    ELSE IF a[2] = 0 \/ b[2] = 0
    THEN IF a[1] = 0 \/ b[1] = 0 THEN f32_nan ELSE f32_inf(Sgn(a[1]) * Sgn(b[1]))
    ELSE LET g1 == GCD(Mag(a[1]), b[2])
             g2 == GCD(Mag(b[1]), a[2])
         IN  f32((a[1] \div g1) * (b[1] \div g2), (a[2] \div g2) * (b[2] \div g1))

\* IEEE quotient: x / 0 is inf for x # 0 and NaN for x = 0
f32_div(a, b) ==
    IF a = f32_nan \/ b = f32_nan THEN f32_nan
    ELSE IF b[2] = 0 THEN IF a[2] = 0 THEN f32_nan ELSE f32_zero
    ELSE IF b[1] = 0 THEN IF a[1] = 0 THEN f32_nan ELSE f32_inf(Sgn(a[1]))
    ELSE IF a[2] = 0 THEN f32_inf(Sgn(a[1]) * Sgn(b[1]))
    ELSE f32_mul(a, <<Sgn(b[1]) * b[2], Mag(b[1])>>)

\* IEEE sum: inf - inf is NaN
f32_add(a, b) ==
    IF a = f32_nan \/ b = f32_nan THEN f32_nan
    ELSE IF a[2] = 0 THEN IF b[2] = 0 /\ b[1] # a[1] THEN f32_nan ELSE a
    ELSE IF b[2] = 0 THEN b
    ELSE LET g == GCD(a[2], b[2])
         IN  f32(a[1] * (b[2] \div g) + b[1] * (a[2] \div g), (a[2] \div g) * b[2])

f32_neg(a) == <<-a[1], a[2]>>

f32_sub(a, b) == f32_add(a, f32_neg(b))

\* a < b, false when one side is NaN
f32_lt(a, b) ==
    IF a = f32_nan \/ b = f32_nan THEN FALSE
    ELSE IF a[2] = 0 THEN a[1] < 0 /\ b # a
    ELSE IF b[2] = 0 THEN b[1] > 0
    ELSE LET g == GCD(a[2], b[2])
         IN  IF a[1] \div a[2] # b[1] \div b[2] THEN a[1] \div a[2] < b[1] \div b[2]
             ELSE (a[1] % a[2]) * (b[2] \div g) < (b[1] % b[2]) * (a[2] \div g)

\* ti.max(a, b): with a NaN operand the backend returns the other operand
\* (nan = "num") or NaN (nan = "nan")
f32_max(a, b, nan) ==
    IF a = f32_nan \/ b = f32_nan
    THEN IF nan = "nan" THEN f32_nan ELSE IF a = f32_nan THEN b ELSE a
    ELSE IF f32_lt(a, b) THEN b ELSE a

\* x ** 5
f32_pow5(x) == f32_mul(f32_mul(f32_mul(x, x), f32_mul(x, x)), x)

\* the constants of utils/const.py and ti.math.pi (as 22/7)
EPSILON == <<1, 1000000>>

TMIN_f32 == <<1, 1000>>

pi == <<22, 7>>

\* each function returns its value and the denominators it divided by
Val(value, divisors) == [value |-> value, divisors |-> divisors]

\* schlick_fresnel(cos_theta, ior)
schlick_fresnel(cos_theta, ior) ==
    LET q == f32_div(f32_sub(f32_one, ior), f32_add(f32_one, ior))
        r0 == f32_mul(q, q)
    IN  Val(f32_add(r0, f32_mul(f32_sub(f32_one, r0), f32_pow5(f32_sub(f32_one, cos_theta)))),
            {f32_add(f32_one, ior)})

\* ggx_distribution(n, h, roughness), n.dot(h) given
ggx_distribution(n_dot_h, roughness, nan) ==
    LET alpha == f32_mul(roughness, roughness)
        alpha2 == f32_mul(alpha, alpha)
        NdotH == f32_max(n_dot_h, f32_zero, nan)
        NdotH2 == f32_mul(NdotH, NdotH)
        denom0 == f32_max(f32_add(f32_mul(NdotH2, f32_sub(alpha2, f32_one)), f32_one),
                          f32_zero, nan)
        denom == f32_mul(f32_mul(pi, denom0), denom0)
    IN  Val(f32_div(alpha2, f32_max(denom, EPSILON, nan)), {f32_max(denom, EPSILON, nan)})

\* geometry_schlick_ggx(ndotv, k)
geometry_schlick_ggx(ndotv, k) ==
    LET denom == f32_add(f32_mul(ndotv, f32_sub(f32_one, k)), k)
    IN  Val(f32_div(ndotv, denom), {denom})

\* geometry_smith(ndotv, vdotl, k)
geometry_smith(ndotv, vdotl, k) ==
    LET ggx_v == geometry_schlick_ggx(ndotv, k)
        ggx_l == geometry_schlick_ggx(vdotl, k)
    IN  Val(f32_mul(ggx_v.value, ggx_l.value), ggx_v.divisors \cup ggx_l.divisors)

\* direct_remapping(alpha)
direct_remapping(alpha) ==
    f32_div(f32_mul(f32_add(f32_one, alpha), f32_add(f32_one, alpha)), <<8, 1>>)

\* refract(v, n, ior) with cos = -v.dot(n): the direction it returns is
\* reflected, refracted or, when k is NaN, a vector of NaN
refract(cos, ior) ==
    LET eta == IF f32_lt(f32_zero, cos) THEN f32_div(f32_one, ior) ELSE ior
        cos_theta == <<Mag(cos[1]), cos[2]>>
        k == f32_sub(f32_one,
                     f32_mul(f32_mul(eta, eta),
                             f32_sub(f32_one, f32_mul(cos_theta, cos_theta))))
    IN  [dir |-> IF f32_lt(k, f32_zero) THEN "reflect"
                 ELSE IF k = f32_nan \/ eta[2] = 0 THEN "nan" ELSE "refract",
         divisors |-> IF f32_lt(f32_zero, cos) THEN {ior} ELSE {}]

\* the geometry term of Renderer.sample_direct_light for an unoccluded light
sample_direct_light(emission, cos_theta_surf, cos_theta_light, distance2, n_lights, nan) ==
    LET denom == f32_max(TMIN_f32, distance2, nan)
        geometry_term == f32_div(f32_mul(cos_theta_surf, cos_theta_light), denom)
    IN  Val(f32_mul(f32_mul(emission, geometry_term), <<n_lights, 1>>), {denom})

\* Renderer.sample_directional_light for an unoccluded light, normal.dot(
\* light_dir) given: NaN when the normal handed in is a vector of NaN
sample_directional_light(color, n_dot_l, nan) ==
    LET cos_theta == f32_max(f32_zero, n_dot_l, nan)
    IN  IF cos_theta = f32_nan \/ f32_lt(f32_zero, cos_theta)
        THEN f32_mul(color, cos_theta)
        ELSE f32_mul(f32_zero, cos_theta)

\* what one pass of the loop of ray_color does to the radiance: the terms it
\* adds to color_buffer, the denominators it divides by, the luminance and
\* the state of the ray direction it leaves
Pass(terms, divisors, luminance, dir) ==
    [terms |-> terms, divisors |-> divisors, luminance |-> luminance, dir |-> dir]

\* luminance /= self.p_rr[None] on the passes after the first
roulette(bounce, luminance, p_rr) ==
    IF bounce > 0 THEN Val(f32_div(luminance, p_rr), {p_rr}) ELSE Val(luminance, {})

\* the PBR branch: h is the hit (albedo, metallic, roughness, emission), g
\* the cosines of the directions drawn (NV, NL, VL, HV, NH, scatter), lt the
\* light sampled (emission, cos_light, distance2), dlw direct_light_weight
ray_color_pbr(h, g, lt, dlw, is_specular, luminance, nan) ==
    LET F0 == f32_add(f32_mul(<<2, 5>>, f32_sub(f32_one, h.metallic)),
                      f32_mul(h.albedo, h.metallic))
        NdotV == f32_max(g.NV, f32_zero, nan)
        alpha == f32_mul(h.roughness, h.roughness)
        light == sample_direct_light(lt.emission, f32_max(f32_zero, g.NL, nan),
                                     lt.cos_light, lt.distance2, 1, nan)
        NdotL == f32_max(g.NL, f32_zero, nan)
        VdotL == f32_max(g.VL, f32_zero, nan)
        HdotV == f32_max(g.HV, f32_zero, nan)
        k == direct_remapping(alpha)
        NDF == ggx_distribution(g.NH, h.roughness, nan)
        G == geometry_smith(NdotV, VdotL, k)
        F == schlick_fresnel(HdotV, F0)
        kd == f32_mul(f32_sub(f32_one, F.value), f32_sub(f32_one, h.metallic))
        nominator == f32_mul(f32_mul(NDF.value, G.value), F.value)
        denom == f32_add(f32_mul(f32_mul(<<4, 1>>, NdotV), NdotL), EPSILON)
        specular == f32_div(nominator, denom)
        direct == f32_mul(f32_mul(f32_mul(f32_mul(
                      f32_add(f32_div(f32_mul(kd, h.albedo), pi), specular),
                      luminance), NdotL), dlw), light.value)
        lit == f32_lt(f32_zero, dlw) /\ f32_lt(f32_zero, NdotL)
        cos_term == f32_max(f32_zero, g.scatter, nan)
        lum == IF is_specular THEN f32_mul(luminance, h.albedo)
               ELSE f32_mul(f32_mul(f32_mul(luminance, h.albedo), cos_term), pi)
    IN  Pass((IF lit THEN {direct} ELSE {}) \cup {f32_mul(lum, h.emission)},
             (IF f32_lt(f32_zero, dlw) THEN light.divisors ELSE {})
                 \cup (IF lit
                       THEN NDF.divisors \cup G.divisors \cup F.divisors \cup {denom, pi}
                       ELSE {}),
             lum, "unit")

\* the GLASS branch: the hit record holds the refraction the intersect
\* function put there
ray_color_glass(h, cos, luminance) ==
    LET r == refract(cos, h.refraction)
    IN  Pass({}, r.divisors, f32_mul(luminance, h.albedo), r.dir)

\* the background branch, for a ray whose direction is dir
ray_color_miss(bounce, dir, n_dot_l, background, directional, ambient_rate, dlw, luminance, nan) ==
    IF bounce > 0
    THEN Pass({f32_mul(f32_mul(background, luminance), ambient_rate),
               f32_mul(f32_mul(sample_directional_light(directional,
                                   IF dir = "nan" THEN f32_nan ELSE n_dot_l, nan),
                               luminance), dlw)},
              {}, luminance, dir)
    ELSE Pass({f32_mul(background, luminance)}, {}, luminance, dir)

\* HitInfo(...) of Triangle.intersect and Sphere.intersect: no refraction
\* is passed, the field keeps its zero
HitInfo_refraction == f32_zero

\* the hits of PBR surfaces with valid parameters, and of glass
PBRHits ==
    [albedo : {<<1, 2>>, f32_one}, metallic : {f32_zero, f32_one},
     roughness : {f32_zero, <<1, 2>>}, emission : {f32_zero, f32_one}]

GlassHits == [albedo : {f32_zero, f32_one}, refraction : {HitInfo_refraction}]

\* cosines of the sampled directions: light and view above the surface on the
\* normal, light below the surface, view grazing, half vector off the normal
Cosines ==
    {[NV |-> f32_one, NL |-> f32_one, VL |-> f32_one, HV |-> f32_one, NH |-> f32_one,
      scatter |-> f32_one],
     [NV |-> f32_one, NL |-> <<-1, 2>>, VL |-> f32_zero, HV |-> <<1, 2>>, NH |-> f32_zero,
      scatter |-> <<1, 2>>],
     [NV |-> f32_zero, NL |-> f32_one, VL |-> f32_zero, HV |-> f32_zero, NH |-> f32_zero,
      scatter |-> f32_zero],
     [NV |-> f32_one, NL |-> f32_one, VL |-> f32_one, HV |-> f32_zero, NH |-> f32_zero,
      scatter |-> <<-1, 2>>]}

\* the light sampled: its emission, the cosine at the light and the squared
\* distance to it
LightSamples ==
    {[emission |-> <<3, 1>>, cos_light |-> f32_one, distance2 |-> <<4, 1>>],
     [emission |-> <<1, 250>>, cos_light |-> <<1, 2>>, distance2 |-> f32_zero]}

\* ti.random() < hitinfo.metallic, the outcomes the metallic allows
SpecularDraws(h) ==
    IF h.metallic = f32_zero THEN {FALSE}
    ELSE IF h.metallic = f32_one THEN {TRUE} ELSE {TRUE, FALSE}

\* a pass of the loop of ray_color may start: the first one, or the second
\* one after a hit
pass_ready == probe = NoCall \/ (probe.fn = "ray_color" /\ probe.bounce = 0 /\ probe.kind # "MISS")

\* the loop variables the pass starts with
pass_bounce == IF probe = NoCall THEN 0 ELSE 1

pass_luminance == IF probe = NoCall THEN f32_one ELSE probe.luminance

pass_dir == IF probe = NoCall THEN "unit" ELSE probe.dir

\* the backend and the parameters of the renderer stay what they are for the
\* whole call; the first pass runs no roulette
pass_params(dlw, p_rr, nan) ==
    IF probe = NoCall THEN p_rr = f32_one
    ELSE nan = probe.nan /\ dlw = probe.direct_light_weight

\* the record of a pass: rr holds the compensated luminance, ps the branch
ray_color_pass(kind, rr, ps, dlw, nan) ==
    /\ probe' = [fn |-> "ray_color", bounce |-> pass_bounce, kind |-> kind, nan |-> nan,
                 direct_light_weight |-> dlw,
                 terms |-> ps.terms, divisors |-> rr.divisors \cup ps.divisors,
                 luminance |-> ps.luminance, dir |-> ps.dir]
    /\ UNCHANGED <<objects, light_map, light_ptr, triangles, tri_ptr, spheres, sphere_ptr,
                   nodes, used_nodes, root_id, makes, err, res, cur_mesh, pt, rp, fe, fbvh>>

\* a pass of ray_color whose ray hits a PBR surface
pass_pbr(h, g, lt, dlw, is_specular, p_rr, nan) ==
    /\ pass_ready
    /\ pass_params(dlw, p_rr, nan)
    /\ LET rr == roulette(pass_bounce, pass_luminance, p_rr)
       IN  ray_color_pass("PBR", rr, ray_color_pbr(h, g, lt, dlw, is_specular, rr.value, nan),
                          dlw, nan)

\* a pass of ray_color whose ray hits glass
pass_glass(h, cos, dlw, p_rr, nan) ==
    /\ pass_ready
    /\ pass_params(dlw, p_rr, nan)
    /\ LET rr == roulette(pass_bounce, pass_luminance, p_rr)
       IN  ray_color_pass("GLASS", rr, ray_color_glass(h, cos, rr.value), dlw, nan)

\* a pass of ray_color whose ray leaves the scene
pass_miss(n_dot_l, background, directional, ambient_rate, dlw, p_rr, nan) ==
    /\ pass_ready
    /\ pass_params(dlw, p_rr, nan)
    /\ LET rr == roulette(pass_bounce, pass_luminance, p_rr)
       IN  ray_color_pass("MISS", rr,
               ray_color_miss(pass_bounce, pass_dir, n_dot_l, background, directional,
                              ambient_rate, dlw, rr.value, nan), dlw, nan)

\* return color_buffer
pass_return ==
    /\ probe # NoCall
    /\ probe.fn = "ray_color"
    /\ probe' = NoCall
    /\ UNCHANGED <<objects, light_map, light_ptr, triangles, tri_ptr, spheres, sphere_ptr,
                   nodes, used_nodes, root_id, makes, err, res, cur_mesh, pt, rp, fe, fbvh>>

NextShade ==
    \/ \E h \in PBRHits, g \in Cosines, lt \in LightSamples, dlw \in {f32_zero, f32_one},
          p_rr \in {<<1, 2>>, f32_one}, nan \in {"num", "nan"} :
          \E is_specular \in SpecularDraws(h) : pass_pbr(h, g, lt, dlw, is_specular, p_rr, nan)
    \/ \E h \in GlassHits, cos \in {f32_zero, <<1, 2>>, f32_one}, dlw \in {f32_zero, f32_one},
          p_rr \in {<<1, 2>>, f32_one}, nan \in {"num", "nan"} :
          pass_glass(h, cos, dlw, p_rr, nan)
    \/ \E n_dot_l \in {<<-1, 2>>, f32_one}, background \in {f32_zero, f32_one},
          directional \in {f32_zero, f32_one}, ambient_rate \in {<<1, 10>>},
          dlw \in {f32_zero, f32_one}, p_rr \in {<<1, 2>>, f32_one}, nan \in {"num", "nan"} :
          pass_miss(n_dot_l, background, directional, ambient_rate, dlw, p_rr, nan)
    \/ pass_return

SpecShade == Init /\ [][NextShade]_vars

\* adding objects one call at a time, lists and unsupported objects included
\* an object that is neither a Triangle, a Sphere, a Mesh nor a list
DirecLightA == [kind |-> "DirecLight"]

\* a Mesh object with geometry and tag set, and a Python list of objects
MeshObj(mesh) == [kind |-> "Mesh", mesh |-> mesh]

ListObj(items) == [kind |-> "List", items |-> items]

\* Scene.add_obj(*args): the object list it leaves behind and the exception
\* it raises; a list is added element by element, in order, each by a call
\* of add_obj of its own
RECURSIVE add_obj_args(_, _)
RECURSIVE add_obj_items(_, _, _)
add_obj_args(objs, args) ==
    IF Len(args) = 1 /\ args[1].kind \in {"Triangle", "Sphere"}
    THEN [objects |-> append(objs, args[1]), raised |-> "none"]
    ELSE IF Len(args) = 1 /\ args[1].kind = "Mesh"
    THEN [objects |-> add_mesh_rows(objs, args[1].mesh, 0),
          raised |-> IF \A index \in 0 .. Len(args[1].mesh.indices) - 1 :
                            RowReadable(args[1].mesh, index)
                     THEN "none" ELSE "IndexError"]
    ELSE IF Len(args) = 1 /\ args[1].kind = "List"
    THEN add_obj_items(objs, args[1].items, 1)
    ELSE [objects |-> objs, raised |-> "ValueError"]

\* for obj in args[0]: self.add_obj(obj), from element k on
add_obj_items(objs, items, k) ==
    IF k > Len(items) THEN [objects |-> objs, raised |-> "none"]
    ELSE LET r == add_obj_args(objs, <<items[k]>>)
         IN  IF r.raised # "none" THEN r ELSE add_obj_items(r.objects, items, k + 1)

\* argument tuples handed to Scene.add_obj
AddArgs ==
    {<<TriA>>, <<SphA>>, <<MeshObj(MeshB)>>, <<DirecLightA>>, <<>>, <<TriA, SphA>>,
     <<ListObj(<<>>)>>,
     <<ListObj(<<TriA, SphA>>)>>,
     <<ListObj(<<DirecLightA, TriA>>)>>,
     <<ListObj(<<SphA, DirecLightA>>)>>,
     <<ListObj(<<MeshObj(MeshB), DirecLightA, SphA>>)>>,
     <<ListObj(<<TriA, ListObj(<<SphA, DirecLightA>>)>>)>>}

\* one call of Scene.add_obj; the caller holds what the call raised, the
\* arguments and the object list of before the call in res
add_obj_call(args) ==
    /\ err = "none"
    /\ res = NoRes
    /\ LET r == add_obj_args(objects, args)
       IN  /\ Len(r.objects) <= MaxObjs
           /\ objects' = r.objects
           /\ res' = [kind |-> "add_obj", args |-> args, raised |-> r.raised,
                      before |-> objects]
    /\ UNCHANGED <<light_map, light_ptr, triangles, tri_ptr, spheres, sphere_ptr,
                   nodes, used_nodes, root_id, makes, err>>
    /\ UNCHANGED others

NextAdd ==
    \/ \E args \in AddArgs : add_obj_call(args)
    \/ release

SpecAdd == Init /\ [][NextAdd]_vars


\* the field-backed BVH of src/core/bvh.py and its one traversal stack
\* a <= b, false when one side is NaN
f32_le(a, b) == a # f32_nan /\ b # f32_nan /\ ~f32_lt(b, a)

\* ti.min(a, b), with a NaN operand as f32_max
f32_min(a, b, nan) ==
    IF a = f32_nan \/ b = f32_nan
    THEN IF nan = "nan" THEN f32_nan ELSE IF a = f32_nan THEN b ELSE a
    ELSE IF f32_lt(b, a) THEN b ELSE a

TMAX_f32 == <<100000000, 1>>

\* one pass of the loop of AABB.intersect over axis i; h is (hit_tmin, hit_tmax)
Field_AABB_axis(box, ray, tmin, tmax, h, i, nan) ==
    LET ray_inv == f32_add(f32_div(f32_one, f32(ray.dir[i], 1)), EPSILON)
        a == f32_mul(f32(box.min[i] - ray.origin[i], 1), ray_inv)
        b == f32_mul(f32(box.max[i] - ray.origin[i], 1), ray_inv)
        t0 == IF f32_lt(ray_inv, f32_zero) THEN b ELSE a
        t1 == IF f32_lt(ray_inv, f32_zero) THEN a ELSE b
        hit_tmin == f32_max(t0, h[1], nan)
        hit_tmax == f32_min(t1, h[2], nan)
    IN  IF f32_le(hit_tmax, hit_tmin) THEN <<tmin, tmax>> ELSE <<hit_tmin, hit_tmax>>

\* AABB.intersect of src/core/bvh.py
Field_AABB_intersect(box, ray, tmin, tmax, nan) ==
    LET h1 == Field_AABB_axis(box, ray, tmin, tmax, <<tmin, tmax>>, 1, nan)
        h2 == Field_AABB_axis(box, ray, tmin, tmax, h1, 2, nan)
        h3 == Field_AABB_axis(box, ray, tmin, tmax, h2, 3, nan)
    IN  [is_hit |-> f32_le(h3[1], h3[2]), tmin |-> h3[1], tmax |-> h3[2]]

\* BVHNode of src/core/bvh.py
FieldNode(bbox, left_idx, right_idx, object_idx, is_leaf) ==
    [bbox |-> bbox, left_idx |-> left_idx, right_idx |-> right_idx,
     object_idx |-> object_idx, is_leaf |-> is_leaf]

\* get_centroid(obj, axis), doubled
get_centroid2(obj, axis) == obj.bbox.min[axis + 1] + obj.bbox.max[axis + 1]

\* list.sort(key=centroid) is stable
RECURSIVE Field_insert(_, _, _)
Field_insert(s, x, axis) ==
    IF s = <<>> THEN <<x>>
    ELSE IF get_centroid2(s[Len(s)], axis) <= get_centroid2(x, axis) THEN Append(s, x)
    ELSE Append(Field_insert(SubSeq(s, 1, Len(s) - 1), x, axis), s[Len(s)])

RECURSIVE Field_sort_objects(_, _)
Field_sort_objects(objs, axis) ==
    IF objs = <<>> THEN <<>>
    ELSE Field_insert(Field_sort_objects(SubSeq(objs, 1, Len(objs) - 1), axis),
                      objs[Len(objs)], axis)

\* the union of the boxes of objects[start:end]
RECURSIVE Field_range_bbox(_, _, _)
Field_range_bbox(objs, start, end) ==
    IF end - start = 1 THEN objs[start + 1].bbox
    ELSE AABB_union(Field_range_bbox(objs, start, end - 1), objs[end].bbox)

\* BVH.build(objects, start, end); rnd holds the values randint(0, 2) returns
\* in the order of the calls of sort_objects; ret is the returned node index
RECURSIVE Field_build(_, _, _)
Field_build(b, start, end) ==
    IF start >= end THEN [b EXCEPT !.ret = -1]
    ELSE LET node_idx == b.nodes_used
             b1 == [b EXCEPT !.nodes_used = node_idx + 1]
         IN  IF end - start = 1
             THEN [b1 EXCEPT !.nodes[node_idx] =
                                 FieldNode(b.objects[start + 1].bbox, -1, -1, start, 1),
                             !.ret = node_idx]
             ELSE LET bbox == Field_range_bbox(b1.objects, start, end)
                      sorted == Field_sort_objects(SubSeq(b1.objects, start + 1, end),
                                                   Head(b1.rnd))
                      b2 == [b1 EXCEPT !.objects = SubSeq(b1.objects, 1, start) \o sorted
                                                       \o SubSeq(b1.objects, end + 1,
                                                                 Len(b1.objects)),
                                       !.rnd = Tail(b1.rnd)]
                      l == Field_build(b2, start, mid(start, end))
                      r == Field_build(l, mid(start, end), end)
                  IN  [r EXCEPT !.nodes[node_idx] = FieldNode(bbox, l.ret, r.ret, -1, 0),
                                !.ret = node_idx]

\* Stack.push on the (stack, size) pair of the one Stack object
Stack_push(s, value) ==
    IF s.size < s.max_size
    THEN [s EXCEPT !.stack[s.size] = value, !.size = s.size + 1]
    ELSE s

\* Stack.pop: the new (stack, size) pair; the popped value is stack[size - 1]
Stack_pop(s) == IF s.size > 0 THEN [s EXCEPT !.size = s.size - 1] ELSE s

\* objects with a bbox, and the lists a BVH is constructed from
FieldBox(x) == [bbox |-> AABB(vec3(x, 0, 0), vec3(x + 2, 2, 2))]

FieldObjectLists ==
    {<<FieldBox(0)>>, <<FieldBox(4), FieldBox(0)>>,
     <<FieldBox(4), FieldBox(8), FieldBox(0)>>}

\* rays of the queries: through every box, through the last box only, past
\* the boxes, and one whose origin lies in a face plane of the boxes
FieldRays ==
    {Ray(vec3(-1, 1, 1), vec3(1, 0, 0)),
     Ray(vec3(9, -1, 1), vec3(0, 1, 0)),
     Ray(vec3(-1, 5, 1), vec3(1, 0, 0)),
     Ray(vec3(-1, 0, 1), vec3(1, 0, 0))}

\* the callers of BVH.intersect: iterations of one parallel kernel loop
Callers == {1, 2}

\* BVH.__init__(objects); nan is how the backend's ti.max and ti.min treat NaN
Field_BVH_init(objs, rnd, nan) ==
    /\ ~fbvh.made
    /\ LET max_nodes == 2 * Len(objs)
           b == Field_build([objects |-> objs,
                             nodes |-> [i \in 0 .. max_nodes - 1 |->
                                            FieldNode(ZeroAABB, 0, 0, 0, 0)],
                             nodes_used |-> 0, rnd |-> rnd, ret |-> -1],
                            0, Len(objs))
       IN  fbvh' = [made |-> TRUE, nan |-> nan, objects |-> b.objects,
                    nodes |-> b.nodes, nodes_used |-> b.nodes_used,
                    root_idx |-> b.ret, max_size |-> max_nodes,
                    stack |-> [i \in 0 .. max_nodes - 1 |-> 0], size |-> 0,
                    begun |-> 0,
                    calls |-> [t \in Callers |-> [pc |-> "idle"]]]
    /\ UNCHANGED <<objects, light_map, light_ptr, triangles, tri_ptr, spheres, sphere_ptr,
                   nodes, used_nodes, root_id, makes, err, res, cur_mesh, pt, rp, fe, probe>>

\* BVH.intersect up to its loop: the hit record, then self.stack.push(root_idx);
\* entered is the size of the stack the call found, begun counts the calls
Field_intersect_begin(t, ray) ==
    /\ fbvh.made
    /\ fbvh.calls[t].pc = "idle"
    /\ fbvh.begun < MaxQueries
    /\ fbvh' = [Stack_push(fbvh, fbvh.root_idx) EXCEPT
                   !.begun = fbvh.begun + 1,
                   !.calls[t] = [pc |-> "loop", ray |-> ray, entered |-> fbvh.size,
                                 bvh_hitinfo |-> [is_hit |-> FALSE, tmin |-> TMIN_f32,
                                                  tmax |-> TMAX_f32, obj_id |-> -1]]]
    /\ UNCHANGED <<objects, light_map, light_ptr, triangles, tri_ptr, spheres, sphere_ptr,
                   nodes, used_nodes, root_id, makes, err, res, cur_mesh, pt, rp, fe, probe>>

\* the test of the while loop and one pass of its body: pop, test the box,
\* take the leaf or push the children; left is the size of the stack at the
\* return
Field_intersect_step(t) ==
    /\ fbvh.made
    /\ fbvh.calls[t].pc = "loop"
    /\ LET c == fbvh.calls[t]
           s == Stack_pop(fbvh)
           node == fbvh.nodes[fbvh.stack[s.size]]
           box_hit == Field_AABB_intersect(node.bbox, c.ray, c.bvh_hitinfo.tmin,
                                           c.bvh_hitinfo.tmax, fbvh.nan)
       IN  IF fbvh.size = 0
           THEN fbvh' = [fbvh EXCEPT !.calls[t] =
                            [pc |-> "done", ray |-> c.ray, entered |-> c.entered,
                             bvh_hitinfo |-> c.bvh_hitinfo, left |-> fbvh.size]]
           ELSE IF ~box_hit.is_hit
           THEN fbvh' = s
           ELSE IF node.is_leaf = 1
           THEN IF f32_lt(box_hit.tmin, c.bvh_hitinfo.tmax)
                THEN fbvh' = [s EXCEPT !.calls[t] =
                                 [pc |-> "done", ray |-> c.ray, entered |-> c.entered,
                                  bvh_hitinfo |-> [is_hit |-> TRUE, tmin |-> box_hit.tmin,
                                                   tmax |-> box_hit.tmax,
                                                   obj_id |-> node.object_idx],
                                  left |-> s.size]]
                ELSE fbvh' = s
           ELSE fbvh' = Stack_push(Stack_push(s, node.right_idx), node.left_idx)
    /\ UNCHANGED <<objects, light_map, light_ptr, triangles, tri_ptr, spheres, sphere_ptr,
                   nodes, used_nodes, root_id, makes, err, res, cur_mesh, pt, rp, fe, probe>>

\* return bvh_hitinfo: the caller takes the result
Field_intersect_return(t) ==
    /\ fbvh.made
    /\ fbvh.calls[t].pc = "done"
    /\ fbvh' = [fbvh EXCEPT !.calls[t] = [pc |-> "idle"]]
    /\ UNCHANGED <<objects, light_map, light_ptr, triangles, tri_ptr, spheres, sphere_ptr,
                   nodes, used_nodes, root_id, makes, err, res, cur_mesh, pt, rp, fe, probe>>

NextField ==
    \/ \E objs \in FieldObjectLists, nan \in {"num", "nan"} :
         \E rnd \in [1 .. Len(objs) - 1 -> Axes] : Field_BVH_init(objs, rnd, nan)
    \/ \E t \in Callers, ray \in FieldRays : Field_intersect_begin(t, ray)
    \/ \E t \in Callers : Field_intersect_step(t)
    \/ \E t \in Callers : Field_intersect_return(t)

SpecField == Init /\ [][NextField]_vars


\* ParametricMesh.generate, one pass of its loops at a time
\* the row of the vertex array that generate writes grid vertex (i, j) to
vertex_row(u_res, v_res, i, j) == i * u_res + j

\* the row of the index array that generate writes the first triangle of
\* cell (i, j) to; the second goes (u_res - 1) * (v_res - 1) rows further
cell_row(u_res, v_res, i, j) == i * (u_res - 1) + j

\* the two index triples of cell (i, j)
cell_lower(v_res, i, j) == <<i * v_res + j, i * v_res + (j + 1), (i + 1) * v_res + j>>

cell_upper(v_res, i, j) ==
    <<i * v_res + (j + 1), (i + 1) * v_res + (j + 1), (i + 1) * v_res + j>>

\* a row of np.zeros that was never written
ZeroRow == <<>>

\* resolutions handed to generate
Resolutions == 2 .. MaxRes

\* generate(u_res, v_res) up to its first loop: the two arrays of zeros;
\* a vertex is held as the grid position (i, j) the kernel was called for
generate_call(u_res, v_res) ==
    /\ probe = NoCall
    /\ probe' = [fn |-> "generate", u_res |-> u_res, v_res |-> v_res,
                 pc |-> "vertices", i |-> 0, j |-> 0, raised |-> "none",
                 vertices |-> [r \in 0 .. u_res * v_res - 1 |-> ZeroRow],
                 indices |-> [r \in 0 .. (u_res - 1) * (v_res - 1) * 2 - 1 |-> ZeroRow],
                 loaded |-> FALSE]
    /\ UNCHANGED <<objects, light_map, light_ptr, triangles, tri_ptr, spheres, sphere_ptr,
                   nodes, used_nodes, root_id, makes, err, res, cur_mesh, pt, rp, fe, fbvh>>

\* one pass of the body of the vertex loop; numpy raises IndexError for a
\* row past the end of the array
generate_vertex ==
    /\ probe # NoCall
    /\ probe.fn = "generate"
    /\ probe.pc = "vertices"
    /\ LET row == vertex_row(probe.u_res, probe.v_res, probe.i, probe.j)
           last == probe.i = probe.u_res - 1 /\ probe.j = probe.v_res - 1
       IN  IF row \notin DOMAIN probe.vertices
           THEN probe' = [probe EXCEPT !.pc = "done", !.raised = "IndexError"]
           ELSE probe' = [probe EXCEPT
                             !.vertices[row] = <<probe.i, probe.j>>,
                             !.pc = IF last THEN "indices" ELSE "vertices",
                             !.i = IF last THEN 0
                                   ELSE IF probe.j = probe.v_res - 1 THEN probe.i + 1
                                   ELSE probe.i,
                             !.j = IF probe.j = probe.v_res - 1 THEN 0 ELSE probe.j + 1]
    /\ UNCHANGED <<objects, light_map, light_ptr, triangles, tri_ptr, spheres, sphere_ptr,
                   nodes, used_nodes, root_id, makes, err, res, cur_mesh, pt, rp, fe, fbvh>>

\* one pass of the body of the index loop: the two triangles of cell (i, j);
\* after the last pass generate hands the arrays to load_geometry
generate_cell ==
    /\ probe # NoCall
    /\ probe.fn = "generate"
    /\ probe.pc = "indices"
    /\ LET row == cell_row(probe.u_res, probe.v_res, probe.i, probe.j)
           next == row + (probe.u_res - 1) * (probe.v_res - 1)
           last == probe.i = probe.u_res - 2 /\ probe.j = probe.v_res - 2
           first == [probe EXCEPT !.indices[row] = cell_lower(probe.v_res, probe.i, probe.j)]
       IN  IF row \notin DOMAIN probe.indices
           THEN probe' = [probe EXCEPT !.pc = "done", !.raised = "IndexError"]
           ELSE IF next \notin DOMAIN probe.indices
           THEN probe' = [first EXCEPT !.pc = "done", !.raised = "IndexError"]
           ELSE probe' = [first EXCEPT
                             !.indices[next] = cell_upper(probe.v_res, probe.i, probe.j),
                             !.pc = IF last THEN "done" ELSE "indices",
                             !.loaded = last,
                             !.i = IF probe.j = probe.v_res - 2 THEN probe.i + 1
                                   ELSE probe.i,
                             !.j = IF probe.j = probe.v_res - 2 THEN 0 ELSE probe.j + 1]
    /\ UNCHANGED <<objects, light_map, light_ptr, triangles, tri_ptr, spheres, sphere_ptr,
                   nodes, used_nodes, root_id, makes, err, res, cur_mesh, pt, rp, fe, fbvh>>

\* generate returns or its exception reaches the caller
generate_return ==
    /\ probe # NoCall
    /\ probe.fn = "generate"
    /\ probe.pc = "done"
    /\ probe' = NoCall
    /\ UNCHANGED <<objects, light_map, light_ptr, triangles, tri_ptr, spheres, sphere_ptr,
                   nodes, used_nodes, root_id, makes, err, res, cur_mesh, pt, rp, fe, fbvh>>

NextGenerate ==
    \/ \E u_res \in Resolutions, v_res \in Resolutions : generate_call(u_res, v_res)
    \/ generate_vertex
    \/ generate_cell
    \/ generate_return

SpecGenerate == Init /\ [][NextGenerate]_vars


\* building a scene from meshes and primitives, then indexing it
NextConstruct ==
    \/ \E g \in Geometries : load_geometry(g.vertices, g.indices)
    \/ \E m \in Materials : set_material(m[1], m[2])
    \/ add_obj_Mesh
    \/ add_obj(SphA, TRUE)
    \/ make
    \/ \E index \in Indices : getitem(index)
    \/ release

SpecConstruct == Init /\ [][NextConstruct]_vars

\* ---------------------------------------------------------------- claims
\* build() has returned for the object list as it is now: the node field is
\* the one set_objects allocated for this list and the root is assigned
BuildReturned == root_id # -1 /\ Cardinality(DOMAIN nodes) = 2 * Len(objects) + 1

\* make() has returned normally for the object list as it is now
Made == BuildReturned /\ err = "none"

Allocated == 0 .. used_nodes - 1

Leaves == {i \in Allocated : nodes[i].obj_id # -1}

SetMin(S) == CHOOSE x \in S : \A y \in S : x <= y

SetMax(S) == CHOOSE x \in S : \A y \in S : x >= y

\* the times at which the primitives of the per-type arrays report a hit
HitTimes(sc, ray, tmin, tmax) ==
    {Triangle_intersect(sc.triangles[i], ray, tmin, tmax).time :
        i \in {j \in 0 .. sc.tri_ptr - 1 :
                  Triangle_intersect(sc.triangles[j], ray, tmin, tmax).is_hit}}
    \cup
    {Sphere_intersect(sc.spheres[i], ray, tmin, tmax).time :
        i \in {j \in 0 .. sc.sphere_ptr - 1 :
                  Sphere_intersect(sc.spheres[j], ray, tmin, tmax).is_hit}}

\* C1: for every built scene and every ray, bvh_intersect returns the same
\* hit flag, the same hit primitive and the same hit distance as
\* bruteforce_intersect
C1_BvhEqualsBruteforce ==
    res # NoRes =>
        /\ res.bvh.is_hit = res.hit.is_hit
        /\ res.bvh.uid = res.hit.uid
        /\ res.bvh.time = res.hit.time

C3_NodeCount ==
    BuildReturned =>
        /\ used_nodes = 2 * Len(objects) - 1
        /\ Allocated \subseteq DOMAIN nodes

C3_Witness == BuildReturned /\ Len(objects) = MaxObjs /\ used_nodes >= 5

\* C4: after build() every internal node's box is the union of its children's
\* boxes, and the root's box is the union of the boxes of all primitives
C4_BoxesAreUnions ==
    BuildReturned =>
        /\ \A i \in Allocated :
             nodes[i].obj_id = -1 =>
               \A k \in 1 .. 3 :
                 /\ nodes[i].aabb.min[k] =
                      Min2(nodes[nodes[i].left_id].aabb.min[k], nodes[nodes[i].right_id].aabb.min[k])
                 /\ nodes[i].aabb.max[k] =
                      Max2(nodes[nodes[i].left_id].aabb.max[k], nodes[nodes[i].right_id].aabb.max[k])
        /\ \A k \in 1 .. 3 :
             /\ nodes[root_id].aabb.min[k] =
                  SetMin({objects[j].entity.bbox.min[k] : j \in 1 .. Len(objects)})
             /\ nodes[root_id].aabb.max[k] =
                  SetMax({objects[j].entity.bbox.max[k] : j \in 1 .. Len(objects)})

\* a built tree whose root box is larger than the box of either child
C4_Witness ==
    /\ BuildReturned
    /\ nodes[root_id].obj_id = -1
    /\ nodes[root_id].aabb # nodes[nodes[root_id].left_id].aabb
    /\ nodes[root_id].aabb # nodes[nodes[root_id].right_id].aabb

\* C5: after build() the obj_id values of the leaves are pairwise distinct and
\* their set is {0, ..., n-1}
C5_LeavesCoverPrimitives ==
    BuildReturned =>
        /\ {nodes[i].obj_id : i \in Leaves} = 0 .. Len(objects) - 1
        /\ \A i, j \in Leaves : nodes[i].obj_id = nodes[j].obj_id => i = j

C5_Witness == BuildReturned /\ Cardinality(Leaves) = MaxObjs

\* C6: after build() every allocated node is either a leaf (obj_id set, no
\* child) or an internal node (no obj_id, two allocated children)
C6_LeafOrInternal ==
    BuildReturned =>
        \A i \in Allocated :
            \/ /\ nodes[i].obj_id # -1
               /\ nodes[i].left_id = -1
               /\ nodes[i].right_id = -1
            \/ /\ nodes[i].obj_id = -1
               /\ nodes[i].left_id \in Allocated
               /\ nodes[i].right_id \in Allocated

\* a built tree with internal nodes below the root
C6_Witness ==
    /\ BuildReturned
    /\ \E i \in Allocated : i # root_id /\ nodes[i].obj_id = -1

\* C7: after every make() the per-type arrays hold each primitive of the
\* scene once (tri_ptr + sphere_ptr = number of primitives) and light_ptr is
\* the number of emissive PBR primitives
C7_MakeIsFullRebuild ==
    Made =>
        /\ tri_ptr + sphere_ptr = Len(objects)
        /\ light_ptr =
             Cardinality({j \in 1 .. Len(objects) :
                             objects[j].tag = PBR /\ objects[j].entity.emissive})

\* the primitive a global index addresses, triangles first
Resolve(i) == IF i < tri_ptr THEN triangles[i] ELSE spheres[i - tri_ptr]

\* C8: after make() light_map[0 .. light_ptr) holds once each the global
\* indices of the emissive PBR primitives, and each entry resolves to an
\* emissive primitive
C8_LightMap ==
    (Made /\ InCapacity /\ light_ptr <= maximum) =>
        /\ {light_map[k] : k \in 0 .. light_ptr - 1} =
             {j - 1 : j \in {i \in 1 .. Len(objects) :
                               objects[i].tag = PBR /\ objects[i].entity.emissive}}
        /\ \A k, l \in 0 .. light_ptr - 1 : light_map[k] = light_map[l] => k = l
        /\ \A k \in 0 .. light_ptr - 1 :
             /\ light_map[k] < tri_ptr + sphere_ptr
             /\ Resolve(light_map[k]).emissive
             /\ Resolve(light_map[k]).uid = objects[light_map[k] + 1].entity.uid

\* the bounding box of a primitive encloses its geometry
Encloses(obj) ==
    \A k \in 1 .. 3 :
        /\ obj.bbox.min[k] <= obj.bbox.max[k]
        /\ IF obj.kind = "Triangle"
           THEN \A v \in {obj.v0, obj.v1, obj.v2} :
                    obj.bbox.min[k] <= v[k] /\ v[k] <= obj.bbox.max[k]
           ELSE /\ obj.bbox.min[k] <= obj.center[k] - obj.radius
                /\ obj.center[k] + obj.radius <= obj.bbox.max[k]

\* C9: after make() every primitive, from a Mesh or added directly, has a
\* bounding box that encloses it, and that box is the one in its BVH leaf
C9_BoxesComputed ==
    Made =>
        /\ \A j \in 1 .. Len(objects) : Encloses(objects[j].entity)
        /\ \A i \in Leaves :
             nodes[i].obj_id \in 0 .. Len(objects) - 1
               => nodes[i].aabb = objects[nodes[i].obj_id + 1].entity.bbox

\* C10: a scene with more triangles, spheres or lights than maximum fails
\* with an error; make() never returns normally with a pointer past the
\* arrays
C10_CapacityIsAnError ==
    (makes >= 1 /\ err = "none") =>
        /\ tri_ptr <= maximum
        /\ sphere_ptr <= maximum
        /\ light_ptr <= maximum

\* C11: a geometry load_geometry accepted has every index inside
\* [0, vertex_count), and every triangle of the scene is made of the three
\* vertices that a row of such indices names
C11_IndicesInRange ==
    /\ cur_mesh.geometry # <<>> =>
          \A r \in 1 .. Len(cur_mesh.geometry[1].indices), k \in 1 .. 3 :
              /\ 0 <= cur_mesh.geometry[1].indices[r][k]
              /\ cur_mesh.geometry[1].indices[r][k] < Len(cur_mesh.geometry[1].vertices)
    /\ \A j \in 1 .. Len(objects) :
          (objects[j].shape = "TRIANGLE" /\ cur_mesh.geometry # <<>>) =>
             \E r \in 1 .. Len(cur_mesh.geometry[1].indices) :
                LET row == cur_mesh.geometry[1].indices[r]
                    vertices == cur_mesh.geometry[1].vertices
                IN  /\ \A k \in 1 .. 3 : 0 <= row[k] /\ row[k] < Len(vertices)
                    /\ objects[j].entity.v0 = vertices[row[1] + 1]
                    /\ objects[j].entity.v1 = vertices[row[2] + 1]
                    /\ objects[j].entity.v2 = vertices[row[3] + 1]

\* C12: a mesh never holds a tag other than PBR and Glass once set_material
\* has returned, and no primitive of a scene has such a tag
C12_KnownTags ==
    /\ cur_mesh.tag # <<>> => cur_mesh.tag[1] \in {PBR, GLASS}
    /\ \A j \in 1 .. Len(objects) : objects[j].tag \in {PBR, GLASS}

\* C13: on a made scene of n primitives, triangles first, Scene[i] returns
\* primitive i of that order for 0 <= i < n and raises IndexError for every
\* other i
C13_GetItem ==
    (res.kind = "getitem" /\ Made) =>
        IF 0 <= res.index /\ res.index < Len(objects)
        THEN /\ res.raised = "none"
             /\ res.obj.uid = objects[res.index + 1].entity.uid
             /\ res.obj.kind = objects[res.index + 1].entity.kind
        ELSE res.raised = "IndexError"

\* the factor the hits of the first n bounces put on the throughput
RECURSIVE Throughput(_, _)
Throughput(scene, n) ==
    IF n = 0 THEN <<1, 1>>
    ELSE RMul(Throughput(scene, n - 1),
              IF scene[n].kind \in {"PBR", "GLASS"} THEN scene[n].f ELSE <<1, 1>>)

\* the roulette tests a path in state s has passed: one per bounce >= 1 begun,
\* the test of the bounce at which the roulette ended it not counted
TestsPassed(s) ==
    IF s.status = "escape" THEN s.bounce
    ELSE IF s.bounce >= 1 THEN s.bounce - 1 ELSE 0

\* the probability that one roulette value passes: the share of the cells of
\* [0, 1) on which the test does not break
PassProbability(p_rr) ==
    Rat(Cardinality({r \in 0 .. RandomCells - 1 : ~rr_break(r, p_rr)}), RandomCells)

RECURSIVE RPow(_, _)
RPow(a, k) == IF k = 0 THEN <<1, 1>> ELSE RMul(a, RPow(a, k - 1))

\* the mean of the returned radiance over the roulette values still to be drawn
RECURSIVE Expected(_)
RECURSIVE ExpectedCells(_, _)
Expected(s) == IF s.status # "running" THEN s.color_buffer ELSE ExpectedCells(s, 0)

\* the sum over the cells r .. RandomCells - 1, each of probability 1 / RandomCells
ExpectedCells(s, r) ==
    IF r >= RandomCells THEN <<0, 1>>
    ELSE CHOOSE x \in {RAdd(RMul(<<1, RandomCells>>, Expected(t)), rest) :
                           t \in {ray_color_bounce(s, r)},
                           rest \in {ExpectedCells(s, r + 1)}} : TRUE

\* the mean radiance of a call of ray_color
ExpectedRadiance(max_depth, p_rr, scene) ==
    CHOOSE x \in {Expected(t) : t \in {ray_color_enter(max_depth, p_rr, scene)}} : TRUE

\* C14: for every path, the probability of passing the roulette tests it has
\* passed, multiplied by the compensation its throughput carries (luminance
\* over the factor of its hits), is 1; and the expected radiance of the call
\* equals the expected radiance of the same call with p_rr = 1
C14_RouletteUnbiased ==
    pt.status # "idle" =>
        /\ RMul(pt.luminance, RPow(PassProbability(pt.p_rr), TestsPassed(pt))) =
              Throughput(pt.scene, pt.bounce)
        /\ ExpectedRadiance(pt.max_depth, pt.p_rr, pt.scene) =
              ExpectedRadiance(pt.max_depth, RandomCells, pt.scene)

\* a path with p_rr < 1 that has passed two tests and carries a compensation
C14_Witness ==
    /\ pt.status = "escape"
    /\ pt.p_rr < RandomCells
    /\ TestsPassed(pt) >= 2
    /\ pt.luminance # Throughput(pt.scene, pt.bounce)
    /\ \E b \in 1 .. pt.bounce : pt.scene[b].f # <<1, 1>>

\* C15: ray_color ends after at most max_depth iterations; the roulette ends
\* a path only at a bounce >= 1, a miss ends it in the iteration of the miss,
\* and a path that ends in neither way ends at bounce = max_depth
C15_PathEnds ==
    /\ [](pt.status # "idle" =>
             /\ pt.bounce <= pt.max_depth
             /\ pt.status = "running" => pt.bounce < pt.max_depth
             /\ pt.status = "depth" => pt.bounce = pt.max_depth
             /\ pt.status = "rr" => pt.bounce >= 1 /\ pt.bounce < pt.max_depth
             /\ pt.status = "escape" => pt.scene[pt.bounce + 1].kind = "MISS"
             /\ \A b \in 1 .. pt.bounce : pt.scene[b].kind # "MISS")
    /\ ((pt.status = "running") ~> (pt.status \in {"depth", "rr", "escape"}))

\* a path that ran all max_depth iterations, passing every roulette test
C15_Witness ==
    /\ pt.status = "depth"
    /\ pt.max_depth = MaxDepth
    /\ pt.bounce = MaxDepth
    /\ pt.p_rr < RandomCells

\* C16: while a render pass runs, its workers store nothing but their own
\* pixel of the output buffers: no field of the camera changes, and a worker's
\* step leaves the pixels of the other workers as they are
C16_WorkersWriteOwnPixelOnly ==
    [][(rp.running /\ rp'.running) =>
          /\ rp'.lower_left_corner = rp.lower_left_corner
          /\ rp'.prev_view_proj = rp.prev_view_proj
          /\ rp'.curr_view_proj = rp.curr_view_proj
          /\ \A p \in Pixels :
                rp'.tmp_buffers[p] # rp.tmp_buffers[p] => rp.workers[p].pc = "store"]_vars

\* C17: a frame in which the camera or a parameter changed is rendered into
\* a cleared accumulation buffer with cnt = 1, and the pixels shown after a
\* frame hold only frames rendered with the camera and parameters as they are
C17_ClearOnChange ==
    /\ (fe.pc \in {"render", "accumulate"} /\ fe.params # fe.frame_params) =>
          fe.acc_buffers = {} /\ fe.cnt = 1
    /\ fe.pc = "ui" => fe.pixels \subseteq {fe.params}

\* a frame that moved the camera is about to be rendered, the frames shown so
\* far being older, and the accumulation buffer has just been cleared
C17_Witness ==
    /\ fe.pc = "render"
    /\ fe.params # fe.frame_params
    /\ fe.keys \in {"move", "drag"}
    /\ fe.pixels = {fe.frame_params}
    /\ fe.acc_buffers = {}


\* the direction of edge1 x edge2, its common factor removed
GeometricNormal(tri) ==
    LET n == Cross(Sub(tri.v1, tri.v0), Sub(tri.v2, tri.v0))
        g == GCD(GCD(Max2(n[1], -n[1]), Max2(n[2], -n[2])), Max2(n[3], -n[3]))
    IN  IF g = 0 THEN n ELSE vec3(n[1] \div g, n[2] \div g, n[3] \div g)

\* the parameter at which the ray meets the plane of the triangle
PlaneTime(tri, ray) ==
    Quot(Dot(Sub(tri.v0, ray.origin), GeometricNormal(tri)),
         Dot(ray.dir, GeometricNormal(tri)))

\* the point of the ray at parameter t
RayAt(ray, t) ==
    vec3(ray.origin[1] + t * ray.dir[1], ray.origin[2] + t * ray.dir[2],
         ray.origin[3] + t * ray.dir[3])

\* p, a point of the plane of the triangle, is on the inner side of each edge
InsideTriangle(tri, p) ==
    \A e \in {<<tri.v0, tri.v1>>, <<tri.v1, tri.v2>>, <<tri.v2, tri.v0>>} :
        Dot(Cross(Sub(e[2], e[1]), Sub(p, e[1])), GeometricNormal(tri)) >= 0

\* the ray meets the triangle at a parameter inside (tmin, tmax)
MeetsTriangle(tri, ray, tmin, tmax) ==
    /\ Dot(ray.dir, GeometricNormal(tri)) # 0
    /\ PlaneTime(tri, ray) > tmin
    /\ PlaneTime(tri, ray) < tmax
    /\ InsideTriangle(tri, RayAt(ray, PlaneTime(tri, ray)))

\* C18: Triangle.intersect reports a hit exactly when the ray meets the plane
\* of the triangle at a parameter inside the query range at a point inside the
\* triangle, the hit time is that parameter, and front is true exactly when
\* the ray arrives against the geometric normal edge1 x edge2; so the triangle
\* (0,0,0), (1,0,0), (0,1,0) hit from (0.25,0.25,1) along (0,0,-1) returns a
\* hit at t = 1 with front = true
C18_TriangleHitAndFront ==
    probe.fn = "Triangle.intersect" =>
        /\ probe.out.is_hit = MeetsTriangle(probe.obj, probe.ray, probe.tmin, probe.tmax)
        /\ probe.out.is_hit =>
             /\ probe.out.time = PlaneTime(probe.obj, probe.ray)
             /\ probe.out.front = (Dot(probe.ray.dir, GeometricNormal(probe.obj)) < 0)


\* the discriminant of |o + t d - c|^2 = r^2
Discriminant(sph, ray) ==
    LET oc == Sub(ray.origin, sph.center)
        a == Dot(ray.dir, ray.dir)
        b == 2 * Dot(oc, ray.dir)
        c == Dot(oc, oc) - sph.radius * sph.radius
    IN  b * b - 4 * a * c

\* the two roots of |o + t d - c|^2 = r^2, the smaller one first
Roots(sph, ray) ==
    LET oc == Sub(ray.origin, sph.center)
        a == Dot(ray.dir, ray.dir)
        b == 2 * Dot(oc, ray.dir)
        root == Sqrt(Discriminant(sph, ray))
    IN  <<DivEps(-b - root, 2 * a), DivEps(-b + root, 2 * a)>>

\* the roots inside the query range
RootsInRange(sph, ray, tmin, tmax) ==
    IF Discriminant(sph, ray) > 0
    THEN {t \in {Roots(sph, ray)[1], Roots(sph, ray)[2]} : t > tmin /\ t < tmax}
    ELSE {}

\* C19: Sphere.intersect reports a hit exactly when one of the two roots of
\* |o + t d - c|^2 = r^2 lies inside the query range, at the nearest such
\* root: at the larger root when the smaller one is outside the range (a ray
\* that starts inside the sphere), and no hit only when neither root is in
\* the range
C19_SphereNearestRoot ==
    probe.fn = "Sphere.intersect" =>
        LET inside == RootsInRange(probe.obj, probe.ray, probe.tmin, probe.tmax)
        IN  /\ probe.out.is_hit = (inside # {})
            /\ inside # {} => probe.out.time = SetMin(inside)


\* the axes along which the ray moves
MovingAxes(ray) == {i \in 1 .. 3 : ray.dir[i] # 0}

\* the ray runs parallel to the slab of axis i with its origin outside of it
ParallelOutside(box, ray, i) ==
    /\ ray.dir[i] = 0
    /\ (ray.origin[i] < box.min[i] \/ ray.origin[i] > box.max[i])

\* the parameters at which the ray crosses the two planes of the slab of a
\* moving axis (the direction is -1 or 1 there)
SlabTimes(box, ray, i) ==
    {(box.min[i] - ray.origin[i]) * ray.dir[i], (box.max[i] - ray.origin[i]) * ray.dir[i]}

\* the ends of the intersection of [tmin, tmax] with the slab intervals
SlabLow(box, ray, tmin) ==
    SetMax({tmin} \cup {SetMin(SlabTimes(box, ray, i)) : i \in MovingAxes(ray)})

SlabHigh(box, ray, tmax) ==
    SetMin({tmax} \cup {SetMax(SlabTimes(box, ray, i)) : i \in MovingAxes(ray)})

\* that intersection is not empty
SlabsMeet(box, ray, tmin, tmax) ==
    /\ \A i \in 1 .. 3 : ~ParallelOutside(box, ray, i)
    /\ SlabLow(box, ray, tmin) <= SlabHigh(box, ray, tmax)

\* C20: AABB.intersect reports a hit exactly when the intersection of
\* [tmin, tmax] with the three slab intervals of the ray is not empty, on a hit
\* the returned [t0, t1] is that intersection, so tmin <= t0 <= t1 <= tmax,
\* and a ray parallel to a slab with its origin outside of it is a miss
C20_SlabIntersection ==
    probe.fn = "AABB.intersect" =>
        /\ probe.out.is_hit = SlabsMeet(probe.obj, probe.ray, probe.tmin, probe.tmax)
        /\ probe.out.is_hit =>
             /\ probe.out.tmin = SlabLow(probe.obj, probe.ray, probe.tmin)
             /\ probe.out.tmax = SlabHigh(probe.obj, probe.ray, probe.tmax)
             /\ probe.tmin <= probe.out.tmin
             /\ probe.out.tmin <= probe.out.tmax
             /\ probe.out.tmax <= probe.tmax
        /\ (\E i \in 1 .. 3 : ParallelOutside(probe.obj, probe.ray, i)) => ~probe.out.is_hit


\* the denominator of inv_d = 1.0 / ray.dir[i] in AABB.intersect
Denominator(ray, i) == ray.dir[i]

\* C21: AABB.intersect never divides by exactly zero, also for a ray with a
\* zero direction component, and the interval bounds it returns are defined
\* numbers (never NaN), also when the origin of such a ray lies on one of the
\* planes of the box on that axis
C21_NoDivisionByZero ==
    probe.fn = "AABB.intersect" =>
        /\ \A i \in 1 .. 3 : Denominator(probe.ray, i) # 0
        /\ probe.out.tmin # NaN
        /\ probe.out.tmax # NaN


\* a finite value that is not negative
NonNegative(x) == x[2] # 0 /\ x[1] >= 0

\* C22: for valid material parameters and non-negative light colours every
\* term ray_color adds to the radiance is a finite non-negative number and
\* every denominator on the way is non-zero
C22_TermsNonNegative ==
    probe.fn = "ray_color" =>
        /\ \A t \in probe.terms : NonNegative(t)
        /\ \A d \in probe.divisors : d # f32_zero /\ d # f32_nan


\* C23: a traversal of a BVH built from n >= 1 primitives never holds more
\* than 2n entries on its stack, loses no push and writes none past the end
\* of the stack, and ends with the stack empty
C23_StackWithinCapacity ==
    (res.kind = "query" /\ Len(objects) >= 1) =>
        /\ ~res.lost
        /\ res.high <= 2 * Len(objects)
        /\ res.high <= 2 * (tri_ptr + sphere_ptr)
        /\ res.stack_ptr = 0

\* a traversal that went below the root and held both children on the stack
C23_Witness ==
    /\ res.kind = "query"
    /\ Len(objects) >= 2
    /\ res.high >= 2
    /\ res.bvh.is_hit


\* the number of triangles in the object list
tri_count == Cardinality({j \in 1 .. Len(objects) : objects[j].shape = "TRIANGLE"})

\* C24: after make(), all box coordinates below TMAX in magnitude, the object
\* list holds every triangle before every sphere, and position i of the list,
\* the leaf with obj_id i, and Scene[i] name the same primitive: triangles[i]
\* for i < tri_count, spheres[i - tri_count] otherwise
C24_TrianglesFirst ==
    (Made /\ InCapacity) =>
        /\ \A i, j \in 1 .. Len(objects) :
             (i < j /\ objects[j].shape = "TRIANGLE") => objects[i].shape = "TRIANGLE"
        /\ tri_ptr = tri_count
        /\ \A i \in 0 .. Len(objects) - 1 :
             /\ Resolve(i).uid = objects[i + 1].entity.uid
             /\ Resolve(i).kind = objects[i + 1].entity.kind
        /\ \A k \in Leaves :
             /\ nodes[k].obj_id \in 0 .. Len(objects) - 1
             /\ Resolve(nodes[k].obj_id).uid = objects[nodes[k].obj_id + 1].entity.uid


\* C25: build() returns for every primitive count: make() on a scene without
\* objects comes back without an error, with no node allocated and root id -1
C25_EmptyBuildReturns ==
    (makes >= 1 /\ Len(objects) = 0) =>
        /\ err = "none"
        /\ used_nodes = 0
        /\ root_id = -1


\* C26: at every accumulate step, from the first frame on, cnt is the number
\* of frames summed into the accumulation buffer since its last clear, the
\* frame of this step included, and so is never zero
C26_CounterIsFrameCount ==
    fe.pc = "accumulate" =>
        /\ fe.cnt = fe.frames + 1
        /\ fe.cnt # 0


\* the call was given an unsupported object, directly or as a list element
GivenUnsupported(args) ==
    /\ Len(args) = 1
    /\ \/ args[1].kind \notin {"Triangle", "Sphere", "Mesh", "List"}
       \/ /\ args[1].kind = "List"
          /\ \E k \in 1 .. Len(args[1].items) :
                 args[1].items[k].kind \notin {"Triangle", "Sphere", "Mesh", "List"}

\* C27: add_obj given an unsupported object, directly or as an element of a
\* list, raises ValueError, and a call of add_obj that raises leaves the
\* object list as it was before the call
C27_RaiseLeavesObjects ==
    res.kind = "add_obj" =>
        /\ GivenUnsupported(res.args) => res.raised = "ValueError"
        /\ res.raised # "none" => objects = res.before


\* BVH.intersect run on a stack of its own, empty at the start
RECURSIVE Field_intersect_loop(_, _, _)
Field_intersect_loop(s, ray, bvh_hitinfo) ==
    LET p == Stack_pop(s)
        node == s.nodes[s.stack[p.size]]
        box_hit == Field_AABB_intersect(node.bbox, ray, bvh_hitinfo.tmin, bvh_hitinfo.tmax,
                                        s.nan)
    IN  IF s.size = 0 THEN bvh_hitinfo
        ELSE IF ~box_hit.is_hit THEN Field_intersect_loop(p, ray, bvh_hitinfo)
        ELSE IF node.is_leaf = 1
        THEN IF f32_lt(box_hit.tmin, bvh_hitinfo.tmax)
             THEN [is_hit |-> TRUE, tmin |-> box_hit.tmin, tmax |-> box_hit.tmax,
                   obj_id |-> node.object_idx]
             ELSE Field_intersect_loop(p, ray, bvh_hitinfo)
        ELSE Field_intersect_loop(Stack_push(Stack_push(p, node.right_idx), node.left_idx),
                                  ray, bvh_hitinfo)

Field_intersect_alone(ray) ==
    Field_intersect_loop(Stack_push([fbvh EXCEPT !.size = 0], fbvh.root_idx), ray,
                         [is_hit |-> FALSE, tmin |-> TMIN_f32, tmax |-> TMAX_f32,
                          obj_id |-> -1])

\* C28: every call of BVH.intersect finds the traversal stack empty and
\* leaves it empty at its return, and its result is the one its ray gives
\* on a stack of its own, whatever earlier or concurrent calls did
C28_StackEmptyAroundCall ==
    fbvh.made =>
        \A t \in Callers :
            /\ fbvh.calls[t].pc # "idle" => fbvh.calls[t].entered = 0
            /\ fbvh.calls[t].pc = "done" =>
                   /\ fbvh.calls[t].left = 0
                   /\ fbvh.calls[t].bvh_hitinfo = Field_intersect_alone(fbvh.calls[t].ray)


\* the primitives below node i, and the edges from node i down to its
\* deepest leaf
RECURSIVE LeavesUnder(_)
LeavesUnder(i) ==
    IF nodes[i].obj_id # -1 THEN 1
    ELSE LeavesUnder(nodes[i].left_id) + LeavesUnder(nodes[i].right_id)

RECURSIVE Depth(_)
Depth(i) ==
    IF nodes[i].obj_id # -1 THEN 0
    ELSE 1 + Max2(Depth(nodes[i].left_id), Depth(nodes[i].right_id))

RECURSIVE CeilLog2(_)
CeilLog2(n) == IF n <= 1 THEN 0 ELSE 1 + CeilLog2((n + 1) \div 2)

\* two primitives of the scene have the same sort key on every axis
KeysTie ==
    \E i, j \in 1 .. Len(objects) :
        i # j /\ \A axis \in Axes : sort_key(objects[i], axis) = sort_key(objects[j], axis)

\* C29: build() splits every range of k >= 2 primitives into a left part of
\* floor(k/2) and a right part of ceil(k/2) primitives, whichever axes are
\* drawn and however the keys tie, and the built tree is at most
\* ceil(log2 n) deep
C29_MidpointSplit ==
    BuildReturned =>
        /\ \A i \in Allocated :
               nodes[i].obj_id = -1 =>
                   /\ LeavesUnder(i) >= 2
                   /\ LeavesUnder(nodes[i].left_id) = LeavesUnder(i) \div 2
                   /\ LeavesUnder(nodes[i].right_id) = LeavesUnder(i) - LeavesUnder(i) \div 2
        /\ LeavesUnder(root_id) = Len(objects)
        /\ Depth(root_id) <= CeilLog2(Len(objects))

\* a tree over an odd number of primitives, two of them with equal keys
C29_Witness ==
    /\ BuildReturned
    /\ Len(objects) = 3
    /\ KeysTie
    /\ Depth(root_id) = 2
    /\ LeavesUnder(nodes[root_id].left_id) = 1
    /\ LeavesUnder(nodes[root_id].right_id) = 2


\* generate(u_res, v_res) has finished, by a return or by an exception
Generated == probe # NoCall /\ probe.fn = "generate" /\ probe.pc = "done"

\* C30: generate(u_res, v_res) with u_res, v_res >= 2 writes grid vertex
\* (i, j) to row i * v_res + j, and the two triangles of every cell each to
\* a row of its own, every triple naming the three vertices of its cell
\* inside [0, u_res * v_res), also when u_res differs from v_res
C30_GridRows ==
    Generated =>
        /\ probe.raised = "none"
        /\ \A i \in 0 .. probe.u_res - 1, j \in 0 .. probe.v_res - 1 :
               probe.vertices[i * probe.v_res + j] = <<i, j>>
        /\ \A i \in 0 .. probe.u_res - 2, j \in 0 .. probe.v_res - 2 :
               /\ \E r \in DOMAIN probe.indices :
                      probe.indices[r] = cell_lower(probe.v_res, i, j)
               /\ \E r \in DOMAIN probe.indices :
                      probe.indices[r] = cell_upper(probe.v_res, i, j)
        /\ \A r \in DOMAIN probe.indices :
               /\ probe.indices[r] # ZeroRow
               /\ \A k \in 1 .. 3 :
                      probe.indices[r][k] \in 0 .. probe.u_res * probe.v_res - 1

====
